---- MODULE Spec2Model ----
(***************************************************************************)
(* Token Spy: provider registry, stream usage extraction and accumulation, *)
(* and the session-health analysis of the usage store.                     *)
(*                                                                         *)
(* The specifications of the module:                                       *)
(*   SpecRegistry  providers/registry.py  (ProviderRegistry)               *)
(*   SpecLookup    the same registry: names, letter case, unknown names    *)
(*   SpecStream    providers/anthropic.py, providers/openai.py             *)
(*                 (extract_usage_from_stream) and the stream accumulator  *)
(*   SpecSession   db.py / db_postgres.py (log_usage, query_session_status)*)
(*                 one agent, thresholds and the rolling window            *)
(*   SpecBoundary  the same store, the session boundary                    *)
(*   SpecHorizon   the same store, two agents, the wall clock moving       *)
(*   SpecWrite     the same store when a write fails                       *)
(*   SpecPricing   providers: get_model_pricing, calculate_cost            *)
(*   SpecAnalysis  providers: analyze_request                              *)
(*   SpecInFlight  the registry: get calls of requests in flight together  *)
(*   SpecForward   providers: get_auth_headers, rewrite_request            *)
(*   SpecRoundTrip the store: log_usage then query_usage of one record     *)
(*   SpecAgents    db_postgres.py: the agents table, names and slugs       *)
(*   SpecFeed      the store: query_recent_events polled by a live feed    *)
(*   SpecPast      the store: windows with several resets                  *)
(***************************************************************************)
EXTENDS Integers, Sequences, FiniteSets, TLC

VARIABLES
    \* ---- providers/registry.py -------------------------------------------
    _providers,     \* ProviderRegistry._providers: lower-cased name -> class
    _instances,     \* ProviderRegistry._instances: lower-cased name -> object id
    heap,           \* every provider object constructed so far: id -> [cls, config]
    ret,            \* the last registry call and what it returned
    lastDefault,    \* history: name -> id returned by the last get(name) without
                    \* override since the last unregister(name) / clear_cache (0: none)
    inflight,       \* the get calls of requests in flight at the same time, in the
                    \* order they began: each one's position in get
    \* ---- one in-flight stream --------------------------------------------
    provider,       \* the provider class serving the stream
    acc,            \* the stream usage accumulator
    frags,          \* history: the fragments fed to the accumulator, in order
    last,           \* the last extract_usage_from_stream call and its outcome
    \* ---- the usage store ---------------------------------------------------
    usage,          \* db.py: rows of table usage, in rowid order
    requests,       \* db_postgres.py: rows of table requests (joined with agents),
                    \* in the order of their INSERTs
    now,            \* the wall clock, in ticks
    status,         \* the last call of db.py and what it returned
    pg_status,      \* the last call of db_postgres.py and what it returned
    agents,         \* db_postgres.py: rows of table agents, in the order of their ids
    _agent_cache,   \* db_postgres.py: _agent_cache, agent name -> id
    events,         \* the records the live feed reads, in the order they were logged
    client,         \* the live-feed client of each backend: its cursor, what it got
    \* ---- one call of a provider method that keeps no state ------------------
    call,           \* the method called and its arguments
    returned        \* what the call returned ([kind |-> "pending"] before it ran)

regVars     == <<_providers, _instances, heap, ret, lastDefault, inflight>>
streamVars  == <<provider, acc, frags, last>>
agentVars   == <<agents, _agent_cache>>
feedVars    == <<events, client>>
storeVars   == <<usage, requests, now, status, pg_status, agents, _agent_cache, events, client>>
callVars    == <<call, returned>>
vars        == <<_providers, _instances, heap, ret, lastDefault, inflight,
                 provider, acc, frags, last, usage, requests, now, status, pg_status,
                 agents, _agent_cache, events, client, call, returned>>

(***************************************************************************)
(* Python dictionaries are functions with a finite domain.                 *)
(***************************************************************************)
EmptyDict == [k \in {} |-> 0]

DictSet(d, k, v) == [x \in (DOMAIN d) \cup {k} |-> IF x = k THEN v ELSE d[x]]

DictDel(d, k) == [x \in (DOMAIN d) \ {k} |-> d[x]]

\* dict.update(other): every key of other overwrites or is added
DictUpdate(d, other) ==
    [x \in (DOMAIN d) \cup (DOMAIN other) |-> IF x \in DOMAIN other THEN other[x] ELSE d[x]]

(***************************************************************************)
(* Strings whose characters matter are sequences of character codes.       *)
(***************************************************************************)
\* str.lower() on ASCII: 'A'..'Z' (65..90) become 'a'..'z'
Lower(s) == [i \in DOMAIN s |-> IF s[i] >= 65 /\ s[i] <= 90 THEN s[i] + 32 ELSE s[i]]

n_anthropic == <<97, 110, 116, 104, 114, 111, 112, 105, 99>>
n_Anthropic == <<65, 110, 116, 104, 114, 111, 112, 105, 99>>
n_openai    == <<111, 112, 101, 110, 97, 105>>
n_moonshot  == <<109, 111, 111, 110, 115, 104, 111, 116>>
n_local     == <<108, 111, 99, 97, 108>>
n_mycloud   == <<109, 121, 99, 108, 111, 117, 100>>

(***************************************************************************)
(* providers/registry.py                                                   *)
(***************************************************************************)
MaxObjects == 3         \* provider objects constructed in one run

Classes == {"AnthropicProvider", "OpenAICompatibleProvider", "MoonshotProvider",
            "LocalProvider"}

\* the classes the runs register again, and the names the runs use
RegClasses == {"AnthropicProvider", "OpenAICompatibleProvider"}
RegNames   == {n_anthropic, n_Anthropic, n_mycloud}

\* Optional[Dict]: None, or a mapping
NoConfig     == [given |-> FALSE, map |-> EmptyDict]
EmptyConfig  == [given |-> TRUE,  map |-> EmptyDict]
UrlConfig    == [given |-> TRUE,  map |-> [k \in {"base_url"} |-> "http://localhost:9000"]]
Configs      == {NoConfig, EmptyConfig, UrlConfig}

\* Python truth value of an Optional[Dict]: None and {} are false
Truthy(config) == config.given /\ DOMAIN config.map # {}

\* LLMProvider.__init__: self.config = config or {}
NewProvider(cls, config) ==
    [cls |-> cls, config |-> IF Truthy(config) THEN config.map ELSE EmptyDict]

\* the registrations made when the providers package is imported
ImportedProviders ==
    [n \in {n_anthropic, n_openai, n_moonshot, n_local} |->
        CASE n = n_anthropic -> "AnthropicProvider"
          [] n = n_openai    -> "OpenAICompatibleProvider"
          [] n = n_moonshot  -> "MoonshotProvider"
          [] n = n_local     -> "LocalProvider"]

NoCall == [op |-> "none", name |-> <<>>, config |-> NoConfig, kind |-> "none", id |-> 0]

InitRegistry ==
    /\ _providers = ImportedProviders
    /\ _instances = EmptyDict
    /\ heap = <<>>
    /\ ret = NoCall
    /\ lastDefault = [n \in {} |-> 0]
    /\ inflight = <<>>

\* history: the default instance handed out for n since the last reset of n
LastDefaultOf(n) == IF n \in DOMAIN lastDefault THEN lastDefault[n] ELSE 0

\* mutant of register: the class is stored under the name as it was given
registerAsGiven(name, provider_class) ==
    /\ _providers' = DictSet(_providers, name, provider_class)
    /\ ret' = [op |-> "register", name |-> name, config |-> NoConfig, kind |-> "none", id |-> 0,
               cls |-> provider_class]
    /\ UNCHANGED <<_instances, heap, lastDefault>>

\* ret.cls records the class argument of the call
register(name, provider_class) ==
    /\ _providers' = DictSet(_providers, Lower(name), provider_class)
    /\ ret' = [op |-> "register", name |-> name, config |-> NoConfig, kind |-> "none", id |-> 0,
               cls |-> provider_class]
    /\ UNCHANGED <<_instances, heap, lastDefault>>

\* registry.py:51  "if config:"
ConfigOverride(config) == Truthy(config)

\* mutant of CacheMiss: the cache is never consulted
CacheMissAlways(name_lower) == TRUE

\* registry.py:55  "if name_lower not in cls._instances"
CacheMiss(name_lower) == name_lower \notin DOMAIN _instances

n_none == <<110, 111, 110, 101>>

\* ", ".join(cls._providers.keys()) or "none": the names the text lists (the
\* order of the keys is not kept)
Available == IF DOMAIN _providers = {} THEN {n_none} ELSE DOMAIN _providers

\* mutant of Unknown: the name is looked up as it was given
UnknownAsGiven(name) == name \notin DOMAIN _providers

\* registry.py:45-46  "name_lower not in cls._providers"
Unknown(name) == Lower(name) \notin DOMAIN _providers

\* the body of get, run for the caller op (get itself, or get_or_none)
get_as(op, name, config) ==
    LET name_lower == Lower(name) IN
    IF Unknown(name)
    THEN /\ ret' = [op |-> op, name |-> name, config |-> config,
                    kind |-> "ValueError", id |-> 0, available |-> Available]
         /\ UNCHANGED <<_providers, _instances, heap, lastDefault>>
    ELSE IF ConfigOverride(config)
    THEN /\ Len(heap) < MaxObjects
         /\ heap' = Append(heap, NewProvider(_providers[name_lower], config))
         /\ ret' = [op |-> op, name |-> name, config |-> config,
                    kind |-> "instance", id |-> Len(heap) + 1]
         /\ UNCHANGED <<_providers, _instances, lastDefault>>
    ELSE IF CacheMiss(name_lower)
    THEN /\ Len(heap) < MaxObjects
         /\ heap' = Append(heap, NewProvider(_providers[name_lower], NoConfig))
         /\ _instances' = DictSet(_instances, name_lower, Len(heap) + 1)
         /\ ret' = [op |-> op, name |-> name, config |-> config,
                    kind |-> "instance", id |-> Len(heap) + 1]
         /\ lastDefault' = IF config.given THEN lastDefault
                           ELSE DictSet(lastDefault, name_lower, Len(heap) + 1)
         /\ UNCHANGED _providers
    ELSE /\ ret' = [op |-> op, name |-> name, config |-> config,
                    kind |-> "instance", id |-> _instances[name_lower]]
         /\ lastDefault' = IF config.given THEN lastDefault
                           ELSE DictSet(lastDefault, name_lower, _instances[name_lower])
         /\ UNCHANGED <<_providers, _instances, heap>>

get(name, config) == get_as("get", name, config)

\* try: return cls.get(name, config)  except ValueError: return None
get_or_none(name, config) ==
    IF Unknown(name)
    THEN /\ ret' = [op |-> "get_or_none", name |-> name, config |-> config,
                    kind |-> "None", id |-> 0]
         /\ UNCHANGED <<_providers, _instances, heap, lastDefault>>
    ELSE get_as("get_or_none", name, config)

is_registered(name) ==
    /\ ret' = [op |-> "is_registered", name |-> name, config |-> NoConfig,
               kind |-> IF Lower(name) \in DOMAIN _providers THEN "True" ELSE "False",
               id |-> 0]
    /\ UNCHANGED <<_providers, _instances, heap, lastDefault>>

clear_cache ==
    /\ _instances' = EmptyDict
    /\ lastDefault' = [n \in {} |-> 0]
    /\ ret' = [op |-> "clear_cache", name |-> <<>>, config |-> NoConfig,
               kind |-> "none", id |-> 0]
    /\ UNCHANGED <<_providers, heap>>

\* mutant of unregister: the cached default instance stays
unregister_keeping_instance(name) ==
    LET name_lower == Lower(name) IN
    IF name_lower \in DOMAIN _providers
    THEN /\ _providers' = DictDel(_providers, name_lower)
         /\ ret' = [op |-> "unregister", name |-> name, config |-> NoConfig,
                    kind |-> "True", id |-> 0]
         /\ UNCHANGED <<_instances, heap, lastDefault>>
    ELSE /\ ret' = [op |-> "unregister", name |-> name, config |-> NoConfig,
                    kind |-> "False", id |-> 0]
         /\ UNCHANGED <<_providers, _instances, heap, lastDefault>>

unregister(name) ==
    LET name_lower == Lower(name) IN
    IF name_lower \in DOMAIN _providers
    THEN /\ _providers' = DictDel(_providers, name_lower)
         /\ _instances' = DictDel(_instances, name_lower)
         /\ lastDefault' = DictDel(lastDefault, name_lower)
         /\ ret' = [op |-> "unregister", name |-> name, config |-> NoConfig,
                    kind |-> "True", id |-> 0]
         /\ UNCHANGED heap
    ELSE /\ ret' = [op |-> "unregister", name |-> name, config |-> NoConfig,
                    kind |-> "False", id |-> 0]
         /\ UNCHANGED <<_providers, _instances, heap, lastDefault>>

\* ---- get without config, statement by statement -------------------------
\* ProviderRegistry takes no lock: the calls of requests in flight at the same
\* time interleave between the statements of get.
MaxThreads == 2         \* get calls in flight at the same time

\* registry.py:45-51: the name is looked up; no config is given
StartGet(name) ==
    /\ Len(inflight) < MaxThreads
    /\ inflight' = Append(inflight,
                          [name_lower |-> Lower(name),
                           pc  |-> IF Unknown(name) THEN "ValueError" ELSE "check",
                           obj |-> 0, id |-> 0])
    /\ UNCHANGED <<_providers, _instances, heap, ret, lastDefault>>

\* registry.py:55  if name_lower not in cls._instances
CheckCache(t) ==
    /\ inflight[t].pc = "check"
    /\ inflight' = [inflight EXCEPT ![t].pc =
                        IF CacheMiss(inflight[t].name_lower) THEN "construct" ELSE "return"]
    /\ UNCHANGED <<_providers, _instances, heap, ret, lastDefault>>

\* registry.py:56, the right-hand side  cls._providers[name_lower]()
Construct(t) ==
    /\ inflight[t].pc = "construct"
    /\ heap' = Append(heap, NewProvider(_providers[inflight[t].name_lower], NoConfig))
    /\ inflight' = [inflight EXCEPT ![t].pc = "store", ![t].obj = Len(heap) + 1]
    /\ UNCHANGED <<_providers, _instances, ret, lastDefault>>

\* registry.py:56, the assignment  cls._instances[name_lower] = ...
Store(t) ==
    /\ inflight[t].pc = "store"
    /\ _instances' = DictSet(_instances, inflight[t].name_lower, inflight[t].obj)
    /\ inflight' = [inflight EXCEPT ![t].pc = "return"]
    /\ UNCHANGED <<_providers, heap, ret, lastDefault>>

\* registry.py:58  return cls._instances[name_lower]
Return(t) ==
    /\ inflight[t].pc = "return"
    /\ inflight' = [inflight EXCEPT ![t].pc = "done",
                                    ![t].id = _instances[inflight[t].name_lower]]
    /\ UNCHANGED <<_providers, _instances, heap, ret, lastDefault>>

(***************************************************************************)
(* JSON values as json.loads returns them, and the Python operations the   *)
(* providers apply to them.                                                *)
(***************************************************************************)
JNull   == [t |-> "null", n |-> 0, s |-> "", e |-> <<>>, f |-> EmptyDict]
JNum(n) == [t |-> "num",  n |-> n, s |-> "", e |-> <<>>, f |-> EmptyDict]
JStr(s) == [t |-> "str",  n |-> 0, s |-> s,  e |-> <<>>, f |-> EmptyDict]
JArr(e) == [t |-> "arr",  n |-> 0, s |-> "", e |-> e,    f |-> EmptyDict]
JObj(f) == [t |-> "obj",  n |-> 0, s |-> "", e |-> <<>>, f |-> f]

\* only a dict has .get; on any other value the call raises AttributeError
IsDict(v) == v.t = "obj"

\* dict.get(key, default) on a dict
DictGet(v, key, default) == IF key \in DOMAIN v.f THEN v.f[key] ELSE default

\* the truth value Python gives a JSON value in "if v:"
PyTruthy(v) ==
    CASE v.t = "null" -> FALSE
      [] v.t = "num"  -> v.n # 0
      [] v.t = "str"  -> v.s # ""
      [] v.t = "arr"  -> v.e # <<>>
      [] v.t = "obj"  -> DOMAIN v.f # {}

\* what one extract_usage_from_stream call does: return None, return a
\* fragment, or raise
ReturnNone    == [kind |-> "none",  frag |-> EmptyDict]
Raise         == [kind |-> "raise", frag |-> EmptyDict]
\* "return result if result else None"
ReturnResult(result) ==
    IF DOMAIN result = {} THEN ReturnNone ELSE [kind |-> "frag", frag |-> result]

(***************************************************************************)
(* One line of the event stream.  prefix is what the stripped line starts  *)
(* with; body is the text after "data:", stripped: the [DONE] sentinel,    *)
(* text json.loads rejects, or a JSON document.                            *)
(***************************************************************************)
Done        == [kind |-> "done",      value |-> JNull]
Malformed   == [kind |-> "malformed", value |-> JNull]
Json(v)     == [kind |-> "json",      value |-> v]

\* stripped.startswith("data:")
IsDataLine(line) == line.prefix = "data:"

\* mutant of AnthropicMessageStart: the fragment keeps the wire names of the
\* cache counts
AnthropicMessageStartWireNames(data) ==
    IF ~IsDict(data) THEN Raise
    ELSE LET message == DictGet(data, "message", JObj(EmptyDict)) IN
         IF ~IsDict(message) THEN Raise
         ELSE LET msg_usage == DictGet(message, "usage", JObj(EmptyDict)) IN
              IF ~PyTruthy(msg_usage) THEN ReturnResult(EmptyDict)
              ELSE IF ~IsDict(msg_usage) THEN Raise
              ELSE ReturnResult(
                     [k \in {"input_tokens", "cache_read_input_tokens",
                             "cache_creation_input_tokens"} |->
                        DictGet(msg_usage, k, JNum(0))])

\* providers/anthropic.py, extract_usage_from_stream, event message_start
AnthropicMessageStart(data) ==
    IF ~IsDict(data) THEN Raise
    ELSE LET message == DictGet(data, "message", JObj(EmptyDict)) IN
         IF ~IsDict(message) THEN Raise
         ELSE LET msg_usage == DictGet(message, "usage", JObj(EmptyDict)) IN
              IF ~PyTruthy(msg_usage) THEN ReturnResult(EmptyDict)
              ELSE IF ~IsDict(msg_usage) THEN Raise
              ELSE ReturnResult(
                     [k \in {"input_tokens", "cache_read_tokens", "cache_write_tokens"} |->
                        CASE k = "input_tokens" ->
                               DictGet(msg_usage, "input_tokens", JNum(0))
                          [] k = "cache_read_tokens" ->
                               DictGet(msg_usage, "cache_read_input_tokens", JNum(0))
                          [] k = "cache_write_tokens" ->
                               DictGet(msg_usage, "cache_creation_input_tokens", JNum(0))])

\* providers/anthropic.py, extract_usage_from_stream, event message_delta
AnthropicMessageDelta(data) ==
    IF ~IsDict(data) THEN Raise
    ELSE LET delta_usage == DictGet(data, "usage", JObj(EmptyDict))
             delta       == DictGet(data, "delta", JObj(EmptyDict)) IN
         IF ~IsDict(delta_usage) THEN Raise
         ELSE LET output_tokens == DictGet(delta_usage, "output_tokens", JNull)
                  r1 == IF output_tokens # JNull
                        THEN DictSet(EmptyDict, "output_tokens", output_tokens)
                        ELSE EmptyDict IN
              IF ~IsDict(delta) THEN Raise
              ELSE LET stop_reason == DictGet(delta, "stop_reason", JNull) IN
                   ReturnResult(IF PyTruthy(stop_reason)
                                THEN DictSet(r1, "stop_reason", stop_reason)
                                ELSE r1)

AnthropicExtract(line, event_type) ==
    IF ~IsDataLine(line) THEN ReturnNone
    ELSE IF line.body.kind = "done" THEN ReturnNone
    ELSE IF line.body.kind = "malformed" THEN ReturnNone
    ELSE IF event_type = "message_start" THEN AnthropicMessageStart(line.body.value)
    ELSE IF event_type = "message_delta" THEN AnthropicMessageDelta(line.body.value)
    ELSE ReturnResult(EmptyDict)

\* providers/openai.py, extract_usage_from_stream: the usage of the final chunk
OpenAIUsage(usage_json) ==
    IF ~PyTruthy(usage_json) THEN ReturnResult(EmptyDict)
    ELSE IF ~IsDict(usage_json) THEN Raise
    ELSE LET r1 == [k \in {"input_tokens", "output_tokens"} |->
                      IF k = "input_tokens"
                      THEN DictGet(usage_json, "prompt_tokens", JNum(0))
                      ELSE DictGet(usage_json, "completion_tokens", JNum(0))]
             details == DictGet(usage_json, "prompt_tokens_details", JObj(EmptyDict)) IN
         IF ~PyTruthy(details) THEN ReturnResult(r1)
         ELSE IF ~IsDict(details) THEN Raise
         ELSE ReturnResult(DictSet(r1, "cache_read_tokens",
                                   DictGet(details, "cached_tokens", JNum(0))))

\* providers/openai.py, extract_usage_from_stream: the stop reason of the choices
OpenAIChoices(result, choices) ==
    IF ~PyTruthy(choices) THEN ReturnResult(result)
    \* choices[0]: a dict has no key 0, a number is not subscriptable
    ELSE IF choices.t \in {"obj", "num"} THEN Raise
    \* a character of a string has no .get
    ELSE IF choices.t = "str" THEN Raise
    ELSE IF ~IsDict(choices.e[1]) THEN Raise
    ELSE LET finish_reason == DictGet(choices.e[1], "finish_reason", JNull) IN
         ReturnResult(IF PyTruthy(finish_reason)
                      THEN DictSet(result, "stop_reason", finish_reason)
                      ELSE result)

OpenAIExtract(line, event_type) ==
    IF ~IsDataLine(line) THEN ReturnNone
    ELSE IF line.body.kind = "done" THEN ReturnNone
    ELSE IF line.body.kind = "malformed" THEN ReturnNone
    ELSE LET data == line.body.value IN
         IF ~IsDict(data) THEN Raise
         ELSE LET u == OpenAIUsage(DictGet(data, "usage", JObj(EmptyDict))) IN
              IF u.kind = "raise" THEN Raise
              ELSE OpenAIChoices(u.frag, DictGet(data, "choices", JArr(<<>>)))

\* MoonshotProvider and LocalProvider inherit the method of OpenAICompatibleProvider
extract_usage_from_stream(cls, line, event_type) ==
    IF cls = "AnthropicProvider"
    THEN AnthropicExtract(line, event_type)
    ELSE OpenAIExtract(line, event_type)


(***************************************************************************)
(* One in-flight stream: the frames the transport delivers, and the        *)
(* accumulator that merges what each frame yields.                         *)
(***************************************************************************)
MaxFrames == 2          \* fragments merged by one stream

StreamClasses == {"AnthropicProvider", "OpenAICompatibleProvider", "LocalProvider"}

\* Optional[str]; "None" stands for None
EventTypes == {"None", "message_start", "message_delta", "ping"}

Obj1(k1, v1)         == JObj(DictSet(EmptyDict, k1, v1))
Obj2(k1, v1, k2, v2) == JObj(DictSet(DictSet(EmptyDict, k1, v1), k2, v2))

Obj3(k1, v1, k2, v2, k3, v3) ==
    JObj(DictSet(DictSet(DictSet(EmptyDict, k1, v1), k2, v2), k3, v3))

\* usage objects as the two protocols send them
StartUsage1 == Obj1("input_tokens", JNum(100))
StartUsage2 == Obj3("input_tokens", JNum(120), "cache_read_input_tokens", JNum(30),
                    "cache_creation_input_tokens", JNum(20))
DeltaUsage  == Obj1("output_tokens", JNum(40))
ChunkUsage1 == Obj2("prompt_tokens", JNum(100), "completion_tokens", JNum(40))
ChunkUsage2 == Obj3("prompt_tokens", JNum(120), "completion_tokens", JNum(45),
                    "prompt_tokens_details", Obj1("cached_tokens", JNum(30)))
StopDelta   == Obj1("stop_reason", JStr("end_turn"))
StopChoice  == JArr(<<Obj1("finish_reason", JStr("stop"))>>)

\* payloads of the shapes the two protocols send
WellFormed ==
    << Obj1("message", JObj(EmptyDict)),
       Obj1("message", Obj1("usage", StartUsage1)),
       Obj1("message", Obj1("usage", StartUsage2)),
       JObj(EmptyDict),
       Obj1("usage", DeltaUsage),
       Obj1("usage", ChunkUsage1),
       Obj1("usage", ChunkUsage2),
       Obj1("delta", StopDelta),
       Obj1("delta", Obj1("stop_reason", JNull)),
       Obj2("usage", DeltaUsage, "delta", StopDelta),
       Obj1("choices", JArr(<<>>)),
       Obj1("choices", StopChoice),
       Obj1("choices", JArr(<<Obj1("finish_reason", JNull)>>)),
       Obj2("usage", ChunkUsage1, "choices", StopChoice),
       Obj2("usage", ChunkUsage2, "choices", JArr(<<>>)) >>

\* valid JSON of other shapes: a keep-alive number or string, null, a list,
\* and objects whose fields are null or of another type
OtherShapes ==
    << JNum(7), JStr("ping"), JNull, JArr(<<>>),
       Obj1("message", JNull),
       Obj1("message", Obj1("usage", JNull)),
       Obj1("message", Obj1("usage", JNum(5))),
       Obj1("usage", JNull),
       Obj1("usage", JNum(5)),
       Obj1("delta", JNull),
       Obj1("usage", Obj1("prompt_tokens_details", JNum(3))),
       Obj1("choices", JNull),
       Obj1("choices", JArr(<<JNull>>)),
       Obj1("choices", Obj1("finish_reason", JStr("stop"))),
       Obj1("message", Obj1("usage", JObj(EmptyDict))),
       Obj2("usage", JNull, "delta", StopDelta),
       Obj2("usage", ChunkUsage1, "choices", JArr(<<JNull>>)) >>

Payloads == WellFormed \o OtherShapes

\* the lines of the runs, numbered: three lines that are not data lines, the
\* sentinel, a data line that is not JSON, and one data line per payload
NonDataLines == << [prefix |-> "event:", body |-> Malformed],
                   [prefix |-> ":",      body |-> Malformed],
                   [prefix |-> "",       body |-> Malformed] >>

Lines == NonDataLines
         \o << [prefix |-> "data:", body |-> Done],
               [prefix |-> "data:", body |-> Malformed] >>
         \o [i \in 1..Len(Payloads) |-> [prefix |-> "data:", body |-> Json(Payloads[i])]]

LineIds == 1..Len(Lines)

\* the accumulator before the first fragment: counts zero, stop reason absent
DefaultUsage ==
    [k \in {"input_tokens", "output_tokens", "cache_read_tokens", "cache_write_tokens",
            "stop_reason"} |-> IF k = "stop_reason" THEN JNull ELSE JNum(0)]

\* last-write-wins merge of one fragment into the accumulator
Merge(usage_acc, fragment) == DictUpdate(usage_acc, fragment)

InitStream ==
    /\ provider \in StreamClasses
    /\ acc = DefaultUsage
    /\ frags = <<>>
    /\ last = [line |-> 0, event_type |-> "None", kind |-> "none", frag |-> EmptyDict]

\* one frame of the stream: extract, and merge what was extracted.  last.line
\* is the number of the line in Lines (0: no call yet)
Feed(line_id, event_type) ==
    LET out == extract_usage_from_stream(provider, Lines[line_id], event_type) IN
    /\ Len(frags) < MaxFrames
    /\ last' = [line |-> line_id, event_type |-> event_type,
                kind |-> out.kind, frag |-> out.frag]
    /\ IF out.kind = "frag"
       THEN /\ acc' = Merge(acc, out.frag)
            /\ frags' = Append(frags, out.frag)
       ELSE UNCHANGED <<acc, frags>>
    /\ UNCHANGED provider

(***************************************************************************)
(* The usage store (db.py) and query_session_status.                       *)
(*                                                                         *)
(* Money is counted in units of 10^-7 USD in the rows, so that rounding to *)
(* six decimals is visible; the status reports money in 10^-6 USD and the  *)
(* cache-write ratio in units of 10^-4.                                    *)
(***************************************************************************)
MaxRows      == 6       \* rows logged in one run of SpecSession
MaxBoundaryRows == 5    \* rows logged in one run of SpecBoundary
MaxHorizonRows == 3     \* rows logged in one run of SpecHorizon
TicksPerDay  == 4       \* clock ticks in 24 hours
MaxTicks     == 9       \* ticks the clock advances in one run

CharT        == 84      \* 'T' in strftime('%Y-%m-%dT%H:%M:%fZ')
CharSpace    == 32      \* ' ' in the text datetime() returns
RollingTurns == 5       \* session_rows[-5:]
ResetFloor   == 1000    \* prev > 1000
MinCacheTurns == 3      \* len(last_5) >= 3
CostUnitsPerMicro == 10 \* row money unit is 10^-7 USD
RatioScale   == 10000   \* round(cache_write_pct, 4)

\* SQL NULL / Python None in a numeric column
Null == -1

\* "x or 0"
OrZero(x) == IF x = Null THEN 0 ELSE x

\* strftime('%Y-%m-%dT%H:%M:%fZ', 'now'): date, 'T', time of day
StrfTime(t) == <<t \div TicksPerDay, CharT, t % TicksPerDay>>

\* datetime('now', '-24 hours'): date, ' ', time of day
DateTimeMinus24h(t) ==
    <<(t - TicksPerDay) \div TicksPerDay, CharSpace, (t - TicksPerDay) % TicksPerDay>>

\* a > b for two TEXT values (BINARY collation: character by character)
TextGreater(a, b) ==
    \/ a[1] > b[1]
    \/ a[1] = b[1] /\ a[2] > b[2]
    \/ a[1] = b[1] /\ a[2] = b[2] /\ a[3] > b[3]

\* ORDER BY timestamp ASC of rows taken in rowid order
RECURSIVE InsertByTimestamp(_, _)
InsertByTimestamp(sorted, row) ==
    IF sorted = <<>> THEN <<row>>
    ELSE IF TextGreater(sorted[Len(sorted)].timestamp, row.timestamp)
         THEN Append(InsertByTimestamp(SubSeq(sorted, 1, Len(sorted) - 1), row),
                     sorted[Len(sorted)])
         ELSE Append(sorted, row)

RECURSIVE OrderByTimestamp(_)
OrderByTimestamp(rows) ==
    IF rows = <<>> THEN <<>>
    ELSE InsertByTimestamp(OrderByTimestamp(SubSeq(rows, 1, Len(rows) - 1)),
                           rows[Len(rows)])

\* WHERE agent = ? AND timestamp > datetime('now', '-24 hours')
InWindow(row, agent) ==
    /\ row.agent = agent
    /\ TextGreater(row.timestamp, DateTimeMinus24h(now))

\* the SELECT of query_session_status
SelectWindow(agent) ==
    OrderByTimestamp(SelectSeq(usage, LAMBDA row : InWindow(row, agent)))

\* mutant of IsReset: a drop to exactly half counts as a reset
IsResetNonStrict(prev, curr) == prev > ResetFloor /\ 2 * curr <= prev

\* the reset test of one adjacent pair: prev > 1000 and curr < prev * 0.5
IsReset(prev, curr) == prev > ResetFloor /\ 2 * curr < prev

\* mutant of ScanResets: the first reset of the window is kept, not the last
RECURSIVE ScanResetsFirst(_, _, _)
ScanResetsFirst(rows, i, last_reset_idx) ==
    IF i >= Len(rows) THEN last_reset_idx
    ELSE ScanResetsFirst(rows, i + 1,
                         IF /\ last_reset_idx = 0
                            /\ IsReset(OrZero(rows[i].conversation_history_chars),
                                       OrZero(rows[i + 1].conversation_history_chars))
                         THEN i ELSE last_reset_idx)

\* for i in range(1, len(rows)): ... last_reset_idx = i   (i counts from 0)
RECURSIVE ScanResets(_, _, _)
ScanResets(rows, i, last_reset_idx) ==
    IF i >= Len(rows) THEN last_reset_idx
    ELSE ScanResets(rows, i + 1,
                    IF IsReset(OrZero(rows[i].conversation_history_chars),
                               OrZero(rows[i + 1].conversation_history_chars))
                    THEN i ELSE last_reset_idx)

LastResetIdx(rows) == ScanResets(rows, 1, 0)

\* mutant of SessionRows: the whole window is taken as the session
SessionRowsWhole(rows) == rows

\* rows[last_reset_idx:]
SessionRows(rows) == SubSeq(rows, LastResetIdx(rows) + 1, Len(rows))

\* mutant of Last5: the first five turns of the session instead of the last
Last5First(session_rows) ==
    SubSeq(session_rows, 1,
           IF Len(session_rows) > RollingTurns THEN RollingTurns ELSE Len(session_rows))

\* session_rows[-5:]
Last5(session_rows) ==
    SubSeq(session_rows,
           IF Len(session_rows) > RollingTurns THEN Len(session_rows) - RollingTurns + 1 ELSE 1,
           Len(session_rows))

RECURSIVE SumCost(_)
SumCost(rows) ==
    IF rows = <<>> THEN 0
    ELSE SumCost(SubSeq(rows, 1, Len(rows) - 1)) + OrZero(rows[Len(rows)].estimated_cost_usd)

RECURSIVE SumCacheWrite(_)
SumCacheWrite(rows) ==
    IF rows = <<>> THEN 0
    ELSE SumCacheWrite(SubSeq(rows, 1, Len(rows) - 1))
         + OrZero(rows[Len(rows)].cache_write_tokens)

RECURSIVE SumCache(_)
SumCache(rows) ==
    IF rows = <<>> THEN 0
    ELSE SumCache(SubSeq(rows, 1, Len(rows) - 1))
         + OrZero(rows[Len(rows)].cache_read_tokens)
         + OrZero(rows[Len(rows)].cache_write_tokens)

Max2(a, b) == IF a > b THEN a ELSE b

\* num / den lies exactly between two whole numbers.  Python's round() then
\* follows the binary expansion of the float; the runs log costs for which no
\* tie arises (NoRoundingTie)
IsTie(num, den) == 2 * (num % den) = den

\* round(num / den, digits), as a whole number of units of 10^-digits:
\* the nearest multiple
RoundDiv(num, den) ==
    LET q == num \div den
        r == num % den IN
    IF 2 * r < den THEN q
    ELSE IF 2 * r > den THEN q + 1
    ELSE IF q % 2 = 0 THEN q ELSE q + 1

\* mutant of Recommendation: the thresholds are inclusive
RecommendationInclusive(current_history, char_limit, total_write_5, total_cache_5, n_last_5) ==
    IF 2 * current_history >= 5 * char_limit THEN "reset_recommended"
    ELSE IF current_history >= 2 * char_limit THEN "compact_soon"
    ELSE IF current_history >= char_limit THEN "monitor"
    ELSE IF 5 * total_write_5 >= Max2(total_cache_5, 1) /\ n_last_5 >= MinCacheTurns
         THEN "cache_unstable"
    ELSE "healthy"

\* the recommendation; the comparisons with char_limit * 2.5, char_limit * 2
\* and 0.20 are cleared of fractions
Recommendation(current_history, char_limit, total_write_5, total_cache_5, n_last_5) ==
    IF 2 * current_history > 5 * char_limit THEN "reset_recommended"
    ELSE IF current_history > 2 * char_limit THEN "compact_soon"
    ELSE IF current_history > char_limit THEN "monitor"
    ELSE IF 5 * total_write_5 > Max2(total_cache_5, 1) /\ n_last_5 >= MinCacheTurns
         THEN "cache_unstable"
    ELSE "healthy"

\* mutant of NoData: an empty window is reported as a healthy session
NoDataHealthy(agent, char_limit, rows) ==
    [op |-> "query_session_status", agent |-> agent, char_limit |-> char_limit,
     rows |-> rows, at |-> now,
     current_session_turns |-> 0, current_history_chars |-> 0, last_turn_cost |-> 0,
     avg_cost_last_5 |-> 0, cache_write_pct_last_5 |-> 0, cost_since_last_reset |-> 0,
     turns_since_last_reset |-> 0, recommendation |-> "healthy"]

\* if not rows: return {...}
NoData(agent, char_limit, rows) ==
    [op |-> "query_session_status", agent |-> agent, char_limit |-> char_limit,
     rows |-> rows, at |-> now,
     current_session_turns |-> 0, current_history_chars |-> 0, last_turn_cost |-> 0,
     avg_cost_last_5 |-> 0, cache_write_pct_last_5 |-> 0, cost_since_last_reset |-> 0,
     turns_since_last_reset |-> 0, recommendation |-> "no_data"]

\* the analysis of a window of rows; rows is kept in the result as the record
\* of what the query read
SessionStatus(agent, char_limit, rows) ==
    IF rows = <<>> THEN NoData(agent, char_limit, rows)
    ELSE LET session_rows    == SessionRows(rows)
             current_history == OrZero(session_rows[Len(session_rows)].conversation_history_chars)
             last_cost       == OrZero(session_rows[Len(session_rows)].estimated_cost_usd)
             total_cost      == SumCost(session_rows)
             last_5          == Last5(session_rows)
             total_cache_5   == SumCache(last_5)
             total_write_5   == SumCacheWrite(last_5) IN
         [op |-> "query_session_status", agent |-> agent, char_limit |-> char_limit,
          rows |-> rows, at |-> now,
          current_session_turns |-> Len(session_rows),
          current_history_chars |-> current_history,
          last_turn_cost |-> RoundDiv(last_cost, CostUnitsPerMicro),
          avg_cost_last_5 |->
              RoundDiv(SumCost(last_5), Max2(Len(last_5), 1) * CostUnitsPerMicro),
          cache_write_pct_last_5 |->
              RoundDiv(total_write_5 * RatioScale, Max2(total_cache_5, 1)),
          cost_since_last_reset |-> RoundDiv(total_cost, CostUnitsPerMicro),
          turns_since_last_reset |-> Len(session_rows),
          recommendation |->
              Recommendation(current_history, char_limit, total_write_5, total_cache_5,
                             Len(last_5))]

NoStatus == [NoData("", 0, <<>>) EXCEPT !.op = "none", !.recommendation = "", !.at = 0]

\* no live-feed client is connected
NoClient == [limit |-> 0]

InitStore ==
    /\ usage = <<>>
    /\ requests = <<>>
    /\ now = TicksPerDay
    /\ status = NoStatus
    /\ pg_status = NoStatus
    /\ agents = <<>>
    /\ _agent_cache = EmptyDict
    /\ events = <<>>
    /\ client = NoClient

\* db.py log_usage: one INSERT; the timestamp column takes its default
log_usage(entry) ==
    /\ usage' = Append(usage,
                       [agent |-> entry.agent,
                        timestamp |-> StrfTime(now),
                        conversation_history_chars |-> entry.conversation_history_chars,
                        cache_read_tokens |-> entry.cache_read_tokens,
                        cache_write_tokens |-> entry.cache_write_tokens,
                        estimated_cost_usd |-> entry.estimated_cost_usd])
    /\ status' = [NoStatus EXCEPT !.op = "log_usage"]

query_session_status(agent, char_limit) ==
    /\ status' = SessionStatus(agent, char_limit, SelectWindow(agent))
    /\ UNCHANGED usage

(***************************************************************************)
(* The PostgreSQL store (db_postgres.py).  The schema is not part of the   *)
(* module: requests.timestamp is a TIMESTAMPTZ that takes the time of the  *)
(* INSERT, the numeric columns accept NULL.  Every entry of the runs has   *)
(* all its keys, so entry.get(key, 0) is the entry's value (None stays     *)
(* NULL), and the agent names of the runs are their own slugs, so the      *)
(* agents row joined to a request is the one of the entry's agent name.    *)
(***************************************************************************)
\* WHERE a.name = %s AND r.timestamp > NOW() - INTERVAL '24 hours'
PgInWindow(row, agent) ==
    /\ row.agent = agent
    /\ row.timestamp > now - TicksPerDay

\* ORDER BY r.timestamp ASC
RECURSIVE PgInsertByTimestamp(_, _)
PgInsertByTimestamp(sorted, row) ==
    IF sorted = <<>> THEN <<row>>
    ELSE IF sorted[Len(sorted)].timestamp > row.timestamp
         THEN Append(PgInsertByTimestamp(SubSeq(sorted, 1, Len(sorted) - 1), row),
                     sorted[Len(sorted)])
         ELSE Append(sorted, row)

RECURSIVE PgOrderByTimestamp(_)
PgOrderByTimestamp(rows) ==
    IF rows = <<>> THEN <<>>
    ELSE PgInsertByTimestamp(PgOrderByTimestamp(SubSeq(rows, 1, Len(rows) - 1)),
                             rows[Len(rows)])

\* the SELECT of db_postgres.query_session_status
PgSelectWindow(agent) ==
    PgOrderByTimestamp(SelectSeq(requests, LAMBDA row : PgInWindow(row, agent)))

\* for i in range(1, len(rows)): if prev > 1000 and curr < prev * 0.5: ...
RECURSIVE PgScanResets(_, _, _)
PgScanResets(rows, i, last_reset_idx) ==
    IF i >= Len(rows) THEN last_reset_idx
    ELSE LET prev == OrZero(rows[i].conversation_history_chars)
             curr == OrZero(rows[i + 1].conversation_history_chars) IN
         PgScanResets(rows, i + 1,
                      IF prev > ResetFloor /\ 2 * curr < prev THEN i ELSE last_reset_idx)

\* rows[last_reset_idx:]
PgSessionRows(rows) == SubSeq(rows, PgScanResets(rows, 1, 0) + 1, Len(rows))

\* sum(float(r["estimated_cost_usd"] or 0) for r in rows): float() of the
\* NUMERIC is the same amount of money
RECURSIVE PgSumCost(_)
PgSumCost(rows) ==
    IF rows = <<>> THEN 0
    ELSE PgSumCost(SubSeq(rows, 1, Len(rows) - 1))
         + OrZero(rows[Len(rows)].estimated_cost_usd)

\* the recommendation of db_postgres.query_session_status
PgRecommendation(current_history, char_limit, total_write_5, total_cache_5, n_last_5) ==
    IF 2 * current_history > 5 * char_limit THEN "reset_recommended"
    ELSE IF current_history > 2 * char_limit THEN "compact_soon"
    ELSE IF current_history > char_limit THEN "monitor"
    ELSE IF 5 * total_write_5 > Max2(total_cache_5, 1) /\ n_last_5 >= MinCacheTurns
         THEN "cache_unstable"
    ELSE "healthy"

\* the analysis of db_postgres.query_session_status
PgSessionStatus(agent, char_limit, rows) ==
    IF rows = <<>>
    THEN [op |-> "query_session_status", agent |-> agent, char_limit |-> char_limit,
          rows |-> rows, at |-> now,
          current_session_turns |-> 0, current_history_chars |-> 0, last_turn_cost |-> 0,
          avg_cost_last_5 |-> 0, cache_write_pct_last_5 |-> 0, cost_since_last_reset |-> 0,
          turns_since_last_reset |-> 0, recommendation |-> "no_data"]
    ELSE LET session_rows    == PgSessionRows(rows)
             n               == Len(session_rows)
             current_history == OrZero(session_rows[n].conversation_history_chars)
             last_cost       == OrZero(session_rows[n].estimated_cost_usd)
             total_cost      == PgSumCost(session_rows)
             last_5          == SubSeq(session_rows,
                                       IF n > RollingTurns THEN n - RollingTurns + 1 ELSE 1, n)
             total_cache_5   == SumCache(last_5)
             total_write_5   == SumCacheWrite(last_5) IN
         [op |-> "query_session_status", agent |-> agent, char_limit |-> char_limit,
          rows |-> rows, at |-> now,
          current_session_turns |-> n,
          current_history_chars |-> current_history,
          last_turn_cost |-> RoundDiv(last_cost, CostUnitsPerMicro),
          avg_cost_last_5 |->
              RoundDiv(PgSumCost(last_5), Max2(Len(last_5), 1) * CostUnitsPerMicro),
          cache_write_pct_last_5 |->
              RoundDiv(total_write_5 * RatioScale, Max2(total_cache_5, 1)),
          cost_since_last_reset |-> RoundDiv(total_cost, CostUnitsPerMicro),
          turns_since_last_reset |-> n,
          recommendation |->
              PgRecommendation(current_history, char_limit, total_write_5, total_cache_5,
                               Len(last_5))]

\* db_postgres.log_usage: one INSERT INTO requests for the entry's agent
pg_log_usage(entry) ==
    /\ requests' = Append(requests,
                       [agent |-> entry.agent,
                        timestamp |-> now,
                        conversation_history_chars |-> entry.conversation_history_chars,
                        cache_read_tokens |-> entry.cache_read_tokens,
                        cache_write_tokens |-> entry.cache_write_tokens,
                        estimated_cost_usd |-> entry.estimated_cost_usd])
    /\ pg_status' = [NoStatus EXCEPT !.op = "log_usage"]

pg_query_session_status(agent, char_limit) ==
    /\ pg_status' = PgSessionStatus(agent, char_limit, PgSelectWindow(agent))
    /\ UNCHANGED requests

\* ---- db_postgres.py: the agents table ------------------------------------
\* slug = agent_name.lower().replace(" ", "-")   (' ' is 32, '-' is 45)
Slug(agent_name) ==
    [i \in DOMAIN agent_name |->
        IF Lower(agent_name)[i] = 32 THEN 45 ELSE Lower(agent_name)[i]]

\* SELECT id FROM agents WHERE tenant_id = %s AND slug = %s; fetchone()
\* (0: no row)
AgentIdOfSlug(slug) ==
    IF \E i \in DOMAIN agents : agents[i].slug = slug
    THEN CHOOSE i \in DOMAIN agents :
            /\ agents[i].slug = slug
            /\ \A j \in DOMAIN agents : agents[j].slug = slug => i <= j
    ELSE 0

\* the id _get_or_create_agent returns: from the cache, from the row with the
\* slug, or of the row it inserts
AgentId(agent_name) ==
    IF agent_name \in DOMAIN _agent_cache THEN _agent_cache[agent_name]
    ELSE IF AgentIdOfSlug(Slug(agent_name)) # 0 THEN AgentIdOfSlug(Slug(agent_name))
    ELSE Len(agents) + 1

_get_or_create_agent(agent_name) ==
    /\ agents' = IF AgentId(agent_name) > Len(agents)
                 THEN Append(agents, [name |-> agent_name, slug |-> Slug(agent_name)])
                 ELSE agents
    /\ _agent_cache' = DictSet(_agent_cache, agent_name, AgentId(agent_name))

\* db_postgres.log_usage with its call of _get_or_create_agent: the row refers
\* to the agent by id; the queries read the agent's name through the id (LEFT
\* JOIN agents), and no agents row is ever updated or deleted, so the row is
\* kept with that name
pg_log_usage_agent(entry) ==
    /\ _get_or_create_agent(entry.agent)
    /\ pg_log_usage([entry EXCEPT !.agent = agents'[AgentId(entry.agent)].name])

QueryUsageLimit == 200  \* query_usage(..., limit: int = 200)

RECURSIVE Reverse(_)
Reverse(rows) ==
    IF rows = <<>> THEN <<>>
    ELSE Append(Reverse(SubSeq(rows, 2, Len(rows))), rows[1])

\* db_postgres.query_usage(agent): a.name = %s, the last 24 hours,
\* ORDER BY r.timestamp DESC LIMIT %s
pg_query_usage(agent) ==
    /\ pg_status' =
          [NoStatus EXCEPT
              !.op = "query_usage", !.agent = agent, !.at = now,
              !.rows = LET rows == Reverse(PgSelectWindow(agent))
                       IN  SubSeq(rows, 1, IF Len(rows) > QueryUsageLimit
                                           THEN QueryUsageLimit ELSE Len(rows))]
    /\ UNCHANGED requests

\* ---- the live feed (query_recent_events) ---------------------------------
\* events[i] is the i-th record logged: db.py gives it id i (INTEGER PRIMARY
\* KEY AUTOINCREMENT), db_postgres.py the uuid4() of its INSERT, events[i].id;
\* its timestamp is the time of the INSERT, later for a later record.
MaxEvents == 3          \* records logged in one run

\* uuid4(): any value no record has yet (the values compare as 1 < 2 < ...)
log_event(uuid) ==
    /\ Len(events) < MaxEvents
    /\ \A i \in DOMAIN events : events[i].id # uuid
    /\ events' = Append(events, [id |-> uuid])

\* ORDER BY timestamp DESC of the records chosen
RECURSIVE NewestFirst(_)
NewestFirst(indices) ==
    IF indices = {} THEN <<>>
    ELSE LET newest == CHOOSE i \in indices : \A j \in indices : j <= i
         IN  <<newest>> \o NewestFirst(indices \ {newest})

\* LIMIT ?
Limit(rows, limit) == SubSeq(rows, 1, IF Len(rows) > limit THEN limit ELSE Len(rows))

\* db.py query_recent_events: "if after_id:" chooses WHERE id > ?  (0 stands
\* for None; both are false)
sqlite_query_recent_events(limit, after_id) ==
    Limit(NewestFirst({i \in DOMAIN events : after_id = 0 \/ i > after_id}), limit)

\* db_postgres.py query_recent_events: AND r.id > %s on the uuid
pg_query_recent_events(limit, after_id) ==
    Limit(NewestFirst({i \in DOMAIN events : after_id = 0 \/ events[i].id > after_id}),
          limit)

\* The feed client keeps, per backend, the records it was delivered (got, in
\* the order of delivery) and polls with after_id = the id of the newest of
\* them, None before it has any.
Newest(got) ==
    IF got = <<>> THEN 0
    ELSE CHOOSE i \in {got[k] : k \in DOMAIN got} : \A k \in DOMAIN got : got[k] <= i

MaxLimit == 3           \* the limit a client polls with
MaxDelivered == 4       \* records one client is delivered in one run

connect(limit) ==
    /\ client = NoClient
    /\ client' = [limit |-> limit, sqlite |-> <<>>, pg |-> <<>>]
    /\ UNCHANGED events

\* the id of record i in the backend
IdOf(backend, i) == IF i = 0 THEN 0 ELSE IF backend = "pg" THEN events[i].id ELSE i

query_recent_events(backend, limit, after_id) ==
    IF backend = "pg" THEN pg_query_recent_events(limit, after_id)
    ELSE sqlite_query_recent_events(limit, after_id)

poll(backend) ==
    /\ client # NoClient
    /\ Len(client[backend]) < MaxDelivered
    /\ client' =
          [client EXCEPT
              ![backend] = @ \o query_recent_events(backend, client.limit,
                                                    IdOf(backend, Newest(@)))]
    /\ UNCHANGED events

\* the wall clock advances
Tick ==
    /\ now < TicksPerDay + MaxTicks
    /\ now' = now + 1
    /\ UNCHANGED <<usage, requests, status, pg_status>>


(***************************************************************************)
(* Pricing and cost (get_model_pricing, calculate_cost).  A rate of the    *)
(* tables is in USD per 1,000,000 tokens; here it is written in 10^-9 USD  *)
(* per token (the table's number times 1000), so that                      *)
(* count * rate / 1_000_000 USD is count * rate in units of 10^-9 USD, a   *)
(* whole number.  The arithmetic of the floats is taken as exact.          *)
(***************************************************************************)
\* AnthropicProvider.COST_TABLE, in the order it is written
AnthropicCostTable ==
    << [key |-> <<99, 108, 97, 117, 100, 101, 45, 111, 112, 117, 115, 45, 52, 45, 54>>,   \* claude-opus-4-6
        input |-> 5000, output |-> 25000, cache_read |-> 500, cache_write |-> 6250],
       [key |-> <<99, 108, 97, 117, 100, 101, 45, 111, 112, 117, 115, 45, 52, 45, 53>>,   \* claude-opus-4-5
        input |-> 5000, output |-> 25000, cache_read |-> 500, cache_write |-> 6250],
       [key |-> <<99, 108, 97, 117, 100, 101, 45, 111, 112, 117, 115, 45, 52, 45, 49>>,   \* claude-opus-4-1
        input |-> 15000, output |-> 75000, cache_read |-> 1500, cache_write |-> 18750],
       [key |-> <<99, 108, 97, 117, 100, 101, 45, 111, 112, 117, 115, 45, 52>>,   \* claude-opus-4
        input |-> 15000, output |-> 75000, cache_read |-> 1500, cache_write |-> 18750],
       [key |-> <<99, 108, 97, 117, 100, 101, 45, 115, 111, 110, 110, 101, 116, 45, 52>>,   \* claude-sonnet-4
        input |-> 3000, output |-> 15000, cache_read |-> 300, cache_write |-> 3750],
       [key |-> <<99, 108, 97, 117, 100, 101, 45, 104, 97, 105, 107, 117, 45, 52, 45, 53>>,   \* claude-haiku-4-5
        input |-> 1000, output |-> 5000, cache_read |-> 100, cache_write |-> 1250],
       [key |-> <<99, 108, 97, 117, 100, 101, 45, 104, 97, 105, 107, 117, 45, 51, 45, 53>>,   \* claude-haiku-3-5
        input |-> 800, output |-> 4000, cache_read |-> 80, cache_write |-> 1000],
       [key |-> <<99, 108, 97, 117, 100, 101, 45, 104, 97, 105, 107, 117>>,   \* claude-haiku
        input |-> 800, output |-> 4000, cache_read |-> 80, cache_write |-> 1000] >>

\* OpenAICompatibleProvider.COST_TABLE, in the order it is written
OpenAICostTable ==
    << [key |-> <<107, 105, 109, 105, 45, 107, 50, 45, 48, 55, 49, 49>>,   \* kimi-k2-0711
        input |-> 600, output |-> 3000, cache_read |-> 100, cache_write |-> 600],
       [key |-> <<107, 105, 109, 105, 45, 107, 50, 45, 48, 57, 48, 53>>,   \* kimi-k2-0905
        input |-> 600, output |-> 2500, cache_read |-> 150, cache_write |-> 600],
       [key |-> <<107, 105, 109, 105, 45, 107, 50, 45, 116, 104, 105, 110, 107, 105, 110, 103>>,   \* kimi-k2-thinking
        input |-> 600, output |-> 2500, cache_read |-> 150, cache_write |-> 600],
       [key |-> <<107, 105, 109, 105, 45, 107, 50, 46, 53>>,   \* kimi-k2.5
        input |-> 600, output |-> 2500, cache_read |-> 150, cache_write |-> 600],
       [key |-> <<107, 105, 109, 105, 45, 107, 50>>,   \* kimi-k2
        input |-> 600, output |-> 2500, cache_read |-> 150, cache_write |-> 600],
       [key |-> <<103, 112, 116, 45, 52, 111>>,   \* gpt-4o
        input |-> 2500, output |-> 10000, cache_read |-> 1250, cache_write |-> 0],
       [key |-> <<103, 112, 116, 45, 52, 111, 45, 109, 105, 110, 105>>,   \* gpt-4o-mini
        input |-> 150, output |-> 600, cache_read |-> 75, cache_write |-> 0],
       [key |-> <<103, 112, 116, 45, 52, 45, 116, 117, 114, 98, 111>>,   \* gpt-4-turbo
        input |-> 10000, output |-> 30000, cache_read |-> 0, cache_write |-> 0],
       [key |-> <<103, 112, 116, 45, 52>>,   \* gpt-4
        input |-> 30000, output |-> 60000, cache_read |-> 0, cache_write |-> 0],
       [key |-> <<103, 112, 116, 45, 51, 46, 53, 45, 116, 117, 114, 98, 111>>,   \* gpt-3.5-turbo
        input |-> 500, output |-> 1500, cache_read |-> 0, cache_write |-> 0],
       [key |-> <<111, 49>>,   \* o1
        input |-> 15000, output |-> 60000, cache_read |-> 7500, cache_write |-> 0],
       [key |-> <<111, 49, 45, 109, 105, 110, 105>>,   \* o1-mini
        input |-> 3000, output |-> 12000, cache_read |-> 1500, cache_write |-> 0],
       [key |-> <<111, 49, 45, 112, 114, 111>>,   \* o1-pro
        input |-> 150000, output |-> 600000, cache_read |-> 0, cache_write |-> 0],
       [key |-> <<100, 101, 101, 112, 115, 101, 101, 107, 45, 99, 104, 97, 116>>,   \* deepseek-chat
        input |-> 270, output |-> 1100, cache_read |-> 70, cache_write |-> 270],
       [key |-> <<100, 101, 101, 112, 115, 101, 101, 107, 45, 114, 101, 97, 115, 111, 110, 101, 114>>,   \* deepseek-reasoner
        input |-> 550, output |-> 2190, cache_read |-> 140, cache_write |-> 550],
       [key |-> <<113, 119, 101, 110>>,   \* qwen
        input |-> 0, output |-> 0, cache_read |-> 0, cache_write |-> 0],
       [key |-> <<108, 108, 97, 109, 97>>,   \* llama
        input |-> 0, output |-> 0, cache_read |-> 0, cache_write |-> 0],
       [key |-> <<109, 105, 115, 116, 114, 97, 108>>,   \* mistral
        input |-> 0, output |-> 0, cache_read |-> 0, cache_write |-> 0] >>

\* the quadruple returned when no key matches
ZeroRates == [input |-> 0, output |-> 0, cache_read |-> 0, cache_write |-> 0]

RatesOf(entry) ==
    [input |-> entry.input, output |-> entry.output,
     cache_read |-> entry.cache_read, cache_write |-> entry.cache_write]

\* Python's "sub in s" on strings
Occurs(sub, s) ==
    \E i \in 0..(Len(s) - Len(sub)) : SubSeq(s, i + 1, i + Len(sub)) = sub

\* one step of the stable sort: e goes behind every entry at least as long
RECURSIVE InsertByLen(_, _)
InsertByLen(sorted, e) ==
    IF sorted = <<>> THEN <<e>>
    ELSE IF Len(sorted[Len(sorted)].key) >= Len(e.key) THEN Append(sorted, e)
    ELSE Append(InsertByLen(SubSeq(sorted, 1, Len(sorted) - 1), e), sorted[Len(sorted)])

RECURSIVE SortFrom(_, _, _)
SortFrom(table, i, sorted) ==
    IF i > Len(table) THEN sorted
    ELSE SortFrom(table, i + 1, InsertByLen(sorted, table[i]))

TableOrder(table) == table

\* sorted(self.COST_TABLE.keys(), key=len, reverse=True): longest first, keys
\* of one length in table order
SortedKeys(table) == SortFrom(table, 1, <<>>)

\* the for loop: the first key of the order that occurs in model_lower
RECURSIVE FirstMatch(_, _, _)
FirstMatch(order, i, model_lower) ==
    IF i > Len(order) THEN ZeroRates
    ELSE IF Occurs(order[i].key, model_lower) THEN RatesOf(order[i])
    ELSE FirstMatch(order, i + 1, model_lower)

\* MoonshotProvider and LocalProvider inherit the table of their base class
CostTable(cls) ==
    IF cls = "AnthropicProvider" THEN AnthropicCostTable ELSE OpenAICostTable

get_model_pricing(cls, model) ==
    IF cls = "LocalProvider" THEN ZeroRates
    ELSE FirstMatch(SortedKeys(CostTable(cls)), 1, Lower(model))

\* usage.get(key, 0)
GetOrZero(u, key) == IF key \in DOMAIN u THEN u[key] ELSE 0

\* count * rate / 1_000_000 USD, in units of 10^-9 USD
CostTerm(count, rate) == count * rate

calculate_cost_without_cache(cls, u, model) ==
    LET rates == get_model_pricing(cls, model)
    IN  CostTerm(GetOrZero(u, "input_tokens"), rates.input)
          + CostTerm(GetOrZero(u, "output_tokens"), rates.output)

calculate_cost(cls, u, model) ==
    LET rates == get_model_pricing(cls, model)
    IN  CostTerm(GetOrZero(u, "input_tokens"), rates.input)
          + CostTerm(GetOrZero(u, "output_tokens"), rates.output)
          + CostTerm(GetOrZero(u, "cache_read_tokens"), rates.cache_read)
          + CostTerm(GetOrZero(u, "cache_write_tokens"), rates.cache_write)

\* one call of a stateless provider method; the caller may repeat it
Returning(value) ==
    [kind |-> "return", value |-> value,
     calls |-> IF returned.kind = "return" THEN returned.calls + 1 ELSE 1]

MaxCalls == 2           \* times one call is made with the same arguments

MayCall(op) ==
    /\ call.op = op
    /\ returned.kind = "return" => returned.calls < MaxCalls

call_get_model_pricing ==
    /\ MayCall("get_model_pricing")
    /\ returned' = Returning(get_model_pricing(call.cls, call.model))
    /\ UNCHANGED call

call_calculate_cost ==
    /\ MayCall("calculate_cost")
    /\ returned' = Returning(calculate_cost(call.cls, call.usage, call.model))
    /\ UNCHANGED call


(***************************************************************************)
(* Request analysis (analyze_request).  A Python value is a record: None,  *)
(* an int, a str (its character codes), a list, a dict with string keys,   *)
(* or an object json.dumps has no encoding for (a set, bytes).             *)
(***************************************************************************)
PNone    == [t |-> "none", n |-> 0, s |-> <<>>, e |-> <<>>, f |-> EmptyDict]
PInt(n)  == [t |-> "int",  n |-> n, s |-> <<>>, e |-> <<>>, f |-> EmptyDict]
PStr(s)  == [t |-> "str",  n |-> 0, s |-> s,    e |-> <<>>, f |-> EmptyDict]
PList(e) == [t |-> "list", n |-> 0, s |-> <<>>, e |-> e,    f |-> EmptyDict]
PDict(f) == [t |-> "dict", n |-> 0, s |-> <<>>, e |-> <<>>, f |-> f]
PObject  == [t |-> "object", n |-> 0, s |-> <<>>, e |-> <<>>, f |-> EmptyDict]

\* d.get(key, default) on a dict
PGet(d, key, default) == IF key \in DOMAIN d.f THEN d.f[key] ELSE default

\* Python truth value: None, 0, "", [] and {} are false
PTruthy(v) ==
    CASE v.t = "none" -> FALSE
      [] v.t = "int"  -> v.n # 0
      [] v.t = "str"  -> v.s # <<>>
      [] v.t = "list" -> v.e # <<>>
      [] v.t = "dict" -> DOMAIN v.f # {}
      [] OTHER        -> TRUE

\* the number of decimal digits of a natural number
RECURSIVE Digits(_)
Digits(n) == IF n < 10 THEN 1 ELSE 1 + Digits(n \div 10)

\* json.dumps raises TypeError exactly when an object without encoding occurs
RECURSIVE Serializable(_)
Serializable(v) ==
    CASE v.t = "object" -> FALSE
      [] v.t = "list"   -> \A i \in DOMAIN v.e : Serializable(v.e[i])
      [] v.t = "dict"   -> \A k \in DOMAIN v.f : Serializable(v.f[k])
      [] OTHER          -> TRUE

\* len(json.dumps(v, separators=(",", ":"))) of a serializable value whose
\* strings are printable ASCII without quote and backslash: null, the digits,
\* the text in quotes, the items between brackets with one comma between two
RECURSIVE DumpsLen(_), DumpsItems(_, _), DumpsPairs(_, _)
DumpsLen(v) ==
    CASE v.t = "none" -> 4
      [] v.t = "int"  -> IF v.n < 0 THEN 1 + Digits(0 - v.n) ELSE Digits(v.n)
      [] v.t = "str"  -> Len(v.s) + 2
      [] v.t = "list" ->
            2 + DumpsItems(v.e, 1) + (IF Len(v.e) > 1 THEN Len(v.e) - 1 ELSE 0)
      [] v.t = "dict" ->
            LET count == Cardinality(DOMAIN v.f)
            IN  2 + DumpsPairs(v.f, DOMAIN v.f) + (IF count > 1 THEN count - 1 ELSE 0)

DumpsItems(e, i) ==
    IF i > Len(e) THEN 0 ELSE DumpsLen(e[i]) + DumpsItems(e, i + 1)

\* "key":value
DumpsPairs(f, keys) ==
    IF keys = {} THEN 0
    ELSE LET k == CHOOSE x \in keys : TRUE
         IN  Len(k) + 3 + DumpsLen(f[k]) + DumpsPairs(f, keys \ {k})

\* str(None) and str(n)
c_None == <<78, 111, 110, 101>>

PyStr(v) ==
    CASE v.t = "str"  -> v.s
      [] v.t = "none" -> c_None
      [] v.t = "int"  -> [i \in 1..Digits(v.n) |->
                            48 + ((v.n \div (10 ^ (Digits(v.n) - i))) % 10)]

\* AnthropicProvider.WORKSPACE_FILE_MAP, in the order it is written
WORKSPACE_FILE_MAP ==
    << [filename |-> <<65, 71, 69, 78, 84, 83, 46, 109, 100>>                      , metric_key |-> "workspace_agents_chars"],
       [filename |-> <<83, 79, 85, 76, 46, 109, 100>>                              , metric_key |-> "workspace_soul_chars"],
       [filename |-> <<84, 79, 79, 76, 83, 46, 109, 100>>                          , metric_key |-> "workspace_tools_chars"],
       [filename |-> <<73, 68, 69, 78, 84, 73, 84, 89, 46, 109, 100>>              , metric_key |-> "workspace_identity_chars"],
       [filename |-> <<85, 83, 69, 82, 46, 109, 100>>                              , metric_key |-> "workspace_user_chars"],
       [filename |-> <<72, 69, 65, 82, 84, 66, 69, 65, 84, 46, 109, 100>>          , metric_key |-> "workspace_heartbeat_chars"],
       [filename |-> <<66, 79, 79, 84, 83, 84, 82, 65, 80, 46, 109, 100>>          , metric_key |-> "workspace_bootstrap_chars"],
       [filename |-> <<77, 69, 77, 79, 82, 89, 46, 109, 100>>                      , metric_key |-> "workspace_memory_chars"] >>

c_hash == <<35, 32>>           \* "# "
c_hashes == <<35, 35, 32>>     \* "## "

WorkspaceKeys == {WORKSPACE_FILE_MAP[i].metric_key : i \in DOMAIN WORKSPACE_FILE_MAP}

\* the result of _analyze_system_prompt before any block is read
ZeroSystem ==
    [k \in {"system_prompt_total_chars", "base_prompt_chars"} \cup WorkspaceKeys |-> 0]

\* f"## {filename}" in text or f"# {filename}" in text
MarkerIn(filename, text) ==
    Occurs(c_hashes \o filename, text) \/ Occurs(c_hash \o filename, text)

NoMarker(text, i) == "base_prompt_chars"

\* the inner for loop: the metric key of the first file name whose marker
\* occurs, base_prompt_chars when the loop ends without a break
RECURSIVE FirstMarker(_, _)
FirstMarker(text, i) ==
    IF i > Len(WORKSPACE_FILE_MAP) THEN "base_prompt_chars"
    ELSE IF MarkerIn(WORKSPACE_FILE_MAP[i].filename, text)
         THEN WORKSPACE_FILE_MAP[i].metric_key
    ELSE FirstMarker(text, i + 1)

\* text = block.get("text", ""), str(text) when it is not a str
BlockText(block) ==
    LET text == PGet(block, "text", PStr(<<>>))
    IN  IF text.t = "str" THEN text.s ELSE PyStr(text)

RECURSIVE ScanBlocks(_, _, _)
ScanBlocks(blocks, i, result) ==
    IF i > Len(blocks) THEN result
    ELSE IF blocks[i].t # "dict" THEN ScanBlocks(blocks, i + 1, result)
    ELSE LET block_len == Len(BlockText(blocks[i]))
             bucket    == FirstMarker(BlockText(blocks[i]), 1)
         IN  ScanBlocks(blocks, i + 1,
                 [result EXCEPT !["system_prompt_total_chars"] = @ + block_len,
                                ![bucket] = @ + block_len])

_analyze_system_prompt(system) ==
    CASE system.t = "str"  -> ScanBlocks(<<PDict([text |-> system])>>, 1, ZeroSystem)
      [] system.t = "list" -> ScanBlocks(system.e, 1, ZeroSystem)
      [] OTHER             -> ZeroSystem

c_user      == <<117, 115, 101, 114>>
c_assistant == <<97, 115, 115, 105, 115, 116, 97, 110, 116>>
c_system    == <<115, 121, 115, 116, 101, 109>>
c_developer == <<100, 101, 118, 101, 108, 111, 112, 101, 114>>

Ok(value) == [ok |-> TRUE, value |-> value, exc |-> "None"]
Err(exc)  == [ok |-> FALSE, value |-> EmptyDict, exc |-> exc]

\* msg.get("role", ""): only a dict has get
Role(msg) == PGet(msg, "role", PStr(<<>>))

IsRole(msg, name) == Role(msg) = PStr(name)

\* for msg in messages: ... of _analyze_messages, from message i on
RECURSIVE CountRoles(_, _, _)
CountRoles(messages, i, counts) ==
    IF i > Len(messages) THEN Ok(counts)
    ELSE IF messages[i].t # "dict" THEN Err("AttributeError")
    ELSE CountRoles(messages, i + 1,
            [user      |-> counts.user + (IF IsRole(messages[i], c_user) THEN 1 ELSE 0),
             assistant |-> counts.assistant
                             + (IF IsRole(messages[i], c_assistant) THEN 1 ELSE 0)])

\* try: len(json.dumps(messages, separators=(",", ":")))
\* except (TypeError, ValueError): 0
HistoryChars(messages) == IF Serializable(messages) THEN DumpsLen(messages) ELSE 0

\* messages is a list in every run, or None (not iterable)
_analyze_messages(messages) ==
    IF messages.t # "list" THEN Err("TypeError")
    ELSE LET counted == CountRoles(messages.e, 1, [user |-> 0, assistant |-> 0])
         IN  IF ~counted.ok THEN counted
             ELSE Ok([message_count              |-> Len(messages.e),
                      user_message_count         |-> counted.value.user,
                      assistant_message_count    |-> counted.value.assistant,
                      conversation_history_chars |-> HistoryChars(messages)])

\* len(tools): None has no len()
ToolCount(tools) ==
    CASE tools.t = "list" -> Ok(Len(tools.e))
      [] tools.t = "dict" -> Ok(Cardinality(DOMAIN tools.f))
      [] tools.t = "str"  -> Ok(Len(tools.s))
      [] OTHER            -> Err("TypeError")

\* A request body is a dict: its keys are the keys given.
BodyGet(body, key, default) == IF key \in DOMAIN body THEN body[key] ELSE default

AnthropicResultInit ==
    [k \in {"system_prompt_total_chars", "base_prompt_chars", "message_count",
            "user_message_count", "assistant_message_count",
            "conversation_history_chars", "tool_count"} \cup WorkspaceKeys |-> 0]

AnthropicAnalyze(body) ==
    LET system       == BodyGet(body, "system", PList(<<>>))
        sys_analysis == IF PTruthy(system) THEN _analyze_system_prompt(system)
                        ELSE EmptyDict
        msg_analysis == _analyze_messages(BodyGet(body, "messages", PList(<<>>)))
        tool_count   == ToolCount(BodyGet(body, "tools", PList(<<>>)))
    IN  IF ~msg_analysis.ok THEN msg_analysis
        ELSE IF ~tool_count.ok THEN tool_count
        ELSE Ok(DictSet(DictUpdate(DictUpdate(AnthropicResultInit, sys_analysis),
                                   msg_analysis.value),
                        "tool_count", tool_count.value))

\* the content of a system or developer message, OpenAI-compatible
RECURSIVE BlockChars(_, _)
BlockChars(blocks, i) ==
    IF i > Len(blocks) THEN 0
    ELSE BlockChars(blocks, i + 1)
           + (CASE blocks[i].t = "dict" ->
                     LET text == PGet(blocks[i], "text", PStr(<<>>))
                     IN  IF text.t = "str" THEN Len(text.s) ELSE 0
                [] blocks[i].t = "str" -> Len(blocks[i].s)
                [] OTHER -> 0)

SystemContentChars(content) ==
    CASE content.t = "str"  -> Ok(Len(content.s))
      [] content.t = "list" -> Ok(BlockChars(content.e, 1))
      [] OTHER -> IF Serializable(content) THEN Ok(DumpsLen(content))
                  ELSE Err("TypeError")

\* for msg in messages: ... of OpenAICompatibleProvider.analyze_request
RECURSIVE OpenAIScan(_, _, _)
OpenAIScan(messages, i, counts) ==
    IF i > Len(messages) THEN Ok(counts)
    ELSE IF messages[i].t # "dict" THEN Err("AttributeError")
    ELSE LET msg     == messages[i]
             content == PGet(msg, "content", PStr(<<>>))
             chars   == IF IsRole(msg, c_system) \/ IsRole(msg, c_developer)
                        THEN SystemContentChars(content) ELSE Ok(0)
         IN  IF ~chars.ok THEN chars
             ELSE OpenAIScan(messages, i + 1,
                     [user      |-> counts.user + (IF IsRole(msg, c_user) THEN 1 ELSE 0),
                      assistant |-> counts.assistant
                                      + (IF IsRole(msg, c_assistant) THEN 1 ELSE 0),
                      system_chars |-> counts.system_chars + chars.value])

OpenAIAnalyze(body) ==
    LET messages == BodyGet(body, "messages", PList(<<>>))
        scanned  == IF messages.t # "list" THEN Err("TypeError")
                    ELSE OpenAIScan(messages.e, 1,
                                    [user |-> 0, assistant |-> 0, system_chars |-> 0])
        tool_count == ToolCount(BodyGet(body, "tools",
                                        BodyGet(body, "functions", PList(<<>>))))
    IN  IF ~scanned.ok THEN scanned
        ELSE IF ~tool_count.ok THEN tool_count
        ELSE Ok([system_prompt_total_chars  |-> scanned.value.system_chars,
                 base_prompt_chars          |-> scanned.value.system_chars,
                 message_count              |-> Len(messages.e),
                 user_message_count         |-> scanned.value.user,
                 assistant_message_count    |-> scanned.value.assistant,
                 conversation_history_chars |-> HistoryChars(messages),
                 tool_count                 |-> tool_count.value])

\* MoonshotProvider and LocalProvider inherit analyze_request
analyze_request(cls, body) ==
    IF cls = "AnthropicProvider" THEN AnthropicAnalyze(body) ELSE OpenAIAnalyze(body)

Raising(exc) ==
    [kind |-> "raise", exc |-> exc, calls |-> 1]

call_analyze_request ==
    /\ MayCall("analyze_request")
    /\ returned.kind # "raise"
    /\ LET outcome == analyze_request(call.cls, call.body)
       IN  returned' = IF outcome.ok THEN Returning(outcome.value)
                       ELSE Raising(outcome.exc)
    /\ UNCHANGED call


(***************************************************************************)
(* Forwarding a request upstream (get_auth_headers, rewrite_request).      *)
(* The inbound headers are a dict from header name (lower case, as the     *)
(* server hands them over) to the value, both str.                         *)
(***************************************************************************)
\* val = request_headers.get(in_key); if val: headers[out_key] = val
CopyHeader(headers, request_headers, out_key, in_key) ==
    IF in_key \in DOMAIN request_headers /\ request_headers[in_key] # ""
    THEN DictSet(headers, out_key, request_headers[in_key])
    ELSE headers

\* the keys of the two for loops, in their order
AnthropicHeaderKeys ==
    <<"x-api-key", "anthropic-version", "anthropic-beta",
      "anthropic-dangerous-direct-browser-access">>

RECURSIVE CopyHeaders(_, _, _, _)
CopyHeaders(headers, request_headers, keys, i) ==
    IF i > Len(keys) THEN headers
    ELSE CopyHeaders(CopyHeader(headers, request_headers, keys[i], keys[i]),
                     request_headers, keys, i + 1)

AnthropicAuthHeaders(request_headers) ==
    CopyHeaders(EmptyDict, request_headers, AnthropicHeaderKeys, 1)

OpenAIAuthHeaders(request_headers) ==
    CopyHeader(CopyHeader(EmptyDict, request_headers, "Authorization", "authorization"),
               request_headers, "x-api-key", "x-api-key")

\* a proxy that forwards what it received
forward_all_headers(cls, request_headers) == request_headers

\* MoonshotProvider and LocalProvider inherit get_auth_headers
get_auth_headers(cls, request_headers) ==
    IF cls = "AnthropicProvider" THEN AnthropicAuthHeaders(request_headers)
    ELSE OpenAIAuthHeaders(request_headers)

call_get_auth_headers ==
    /\ MayCall("get_auth_headers")
    /\ returned' = Returning(get_auth_headers(call.cls, call.headers))
    /\ UNCHANGED call

\* for msg in messages: if msg.get("role") == "developer": msg["role"] = "system"
\* (only a dict has get; a message without role gives None)
RECURSIVE RewriteRoles(_, _)
RewriteRoles(messages, i) ==
    IF i > Len(messages) THEN Ok(messages)
    ELSE IF messages[i].t # "dict" THEN Err("AttributeError")
    ELSE RewriteRoles(
            IF PGet(messages[i], "role", PNone) = PStr(c_developer)
            THEN [messages EXCEPT ![i] = PDict(DictSet(messages[i].f, "role", PStr(c_system)))]
            ELSE messages,
            i + 1)

\* a str or a dict is iterated over its characters or keys, which are str
OpenAIRewrite(body) ==
    LET messages == BodyGet(body, "messages", PList(<<>>))
    IN  CASE messages.t = "list" ->
                LET rewritten == \E i \in DOMAIN messages.e :
                                     /\ messages.e[i].t = "dict"
                                     /\ PGet(messages.e[i], "role", PNone) = PStr(c_developer)
                    roles == RewriteRoles(messages.e, 1)
                IN  IF ~roles.ok THEN roles
                    ELSE IF rewritten THEN Ok(DictSet(body, "messages", PList(roles.value)))
                    ELSE Ok(body)
          [] messages.t \in {"str", "dict"} ->
                IF PTruthy(messages) THEN Err("AttributeError") ELSE Ok(body)
          [] OTHER -> Err("TypeError")

\* a provider without compatibility transform
rewrite_nothing(cls, body) == Ok(body)

\* MoonshotProvider and LocalProvider inherit rewrite_request
rewrite_request(cls, body) ==
    IF cls = "AnthropicProvider" THEN Ok(body) ELSE OpenAIRewrite(body)

\* the body is rewritten in place: a repeated call is given the body the call
\* before returned; call.body keeps the body as the client sent it
call_rewrite_request ==
    /\ MayCall("rewrite_request")
    /\ returned.kind # "raise"
    /\ LET body    == IF returned.kind = "return" THEN returned.value ELSE call.body
           outcome == rewrite_request(call.cls, body)
       IN  returned' = IF outcome.ok THEN Returning(outcome.value)
                       ELSE Raising(outcome.exc)
    /\ UNCHANGED call


(***************************************************************************)
(* A usage record written and read back (log_usage, then query_usage).     *)
(* The record is a dict from field name to a Python value.                 *)
(***************************************************************************)
\* the columns of the table after id and timestamp
UsageColumns ==
    {"agent", "model", "request_body_bytes", "message_count", "user_message_count",
     "assistant_message_count", "tool_count", "system_prompt_total_chars",
     "workspace_agents_chars", "workspace_soul_chars", "workspace_tools_chars",
     "workspace_identity_chars", "workspace_user_chars", "workspace_heartbeat_chars",
     "workspace_bootstrap_chars", "workspace_memory_chars", "skill_injection_chars",
     "base_prompt_chars", "conversation_history_chars", "input_tokens", "output_tokens",
     "cache_read_tokens", "cache_write_tokens", "estimated_cost_usd", "duration_ms",
     "stop_reason"}

\* the list cols of db.py log_usage
InsertColumns ==
    {"agent", "model", "request_body_bytes", "message_count", "user_message_count",
     "assistant_message_count", "tool_count", "system_prompt_total_chars",
     "workspace_agents_chars", "workspace_soul_chars", "workspace_tools_chars",
     "workspace_identity_chars", "workspace_user_chars", "workspace_heartbeat_chars",
     "workspace_bootstrap_chars", "skill_injection_chars", "base_prompt_chars",
     "conversation_history_chars", "input_tokens", "output_tokens", "cache_read_tokens",
     "cache_write_tokens", "estimated_cost_usd", "duration_ms", "stop_reason"}

\* DEFAULT of a column the INSERT does not name: 0, NULL for the TEXT columns
ColumnDefault(column) ==
    IF column \in {"agent", "model", "stop_reason"} THEN PNone ELSE PInt(0)

\* db.py: values = [entry.get(c) for c in cols]; INSERT; SELECT * of the row
sqlite_read_back(entry) ==
    [column \in UsageColumns |->
        IF column \in InsertColumns THEN BodyGet(entry, column, PNone)
        ELSE ColumnDefault(column)]

c_unknown == <<117, 110, 107, 110, 111, 119, 110>>

\* db_postgres.py: entry.get(column, 0), "unknown" for agent and model, None
\* for stop_reason; SELECT of the row (float() of the cost is the same amount)
pg_read_back(entry) ==
    [column \in UsageColumns |->
        BodyGet(entry, column,
                CASE column \in {"agent", "model"} -> PStr(c_unknown)
                  [] column = "stop_reason"        -> PNone
                  [] OTHER                          -> PInt(0))]

\* log_usage(entry), then query_usage() on each backend: the row of the entry
call_log_usage_query_usage ==
    /\ MayCall("log_usage, query_usage")
    /\ returned' = Returning([sqlite |-> sqlite_read_back(call.entry),
                              pg     |-> pg_read_back(call.entry)])
    /\ UNCHANGED call


(***************************************************************************)
(* The specifications.                                                     *)
(***************************************************************************)
\* no call of a stateless provider method is under way
Pending == [kind |-> "pending"]

CallIdle ==
    /\ call = [op |-> "none"]
    /\ returned = Pending

StreamIdle ==
    /\ provider = "AnthropicProvider"
    /\ acc = DefaultUsage
    /\ frags = <<>>
    /\ last = [line |-> 0, event_type |-> "None", kind |-> "none", frag |-> EmptyDict]

\* ---- SpecRegistry ------------------------------------------------------
InitR == InitRegistry /\ StreamIdle /\ InitStore /\ CallIdle

NextR ==
    \/ \E name \in RegNames, c \in RegClasses :
          register(name, c) /\ UNCHANGED <<inflight, streamVars, storeVars, callVars>>
    \/ \E name \in RegNames, config \in Configs :
          get(name, config) /\ UNCHANGED <<inflight, streamVars, storeVars, callVars>>
    \/ clear_cache /\ UNCHANGED <<inflight, streamVars, storeVars, callVars>>
    \/ \E name \in RegNames :
          unregister(name) /\ UNCHANGED <<inflight, streamVars, storeVars, callVars>>

SpecRegistry == InitR /\ [][NextR]_vars

\* ---- SpecLookup: names, letter case and unknown names -------------------
MaxLookupObjects == 1   \* provider objects constructed in one run of SpecLookup

LookupConfigs == {NoConfig, UrlConfig}

NextL ==
    \/ \E name \in RegNames, c \in RegClasses :
          register(name, c) /\ UNCHANGED <<inflight, streamVars, storeVars, callVars>>
    \/ \E name \in RegNames, config \in LookupConfigs :
          /\ get(name, config)
          /\ Len(heap') <= MaxLookupObjects
          /\ UNCHANGED <<inflight, streamVars, storeVars, callVars>>
    \/ \E name \in RegNames, config \in LookupConfigs :
          /\ get_or_none(name, config)
          /\ Len(heap') <= MaxLookupObjects
          /\ UNCHANGED <<inflight, streamVars, storeVars, callVars>>
    \/ \E name \in RegNames :
          is_registered(name) /\ UNCHANGED <<inflight, streamVars, storeVars, callVars>>
    \/ \E name \in RegNames :
          unregister(name) /\ UNCHANGED <<inflight, streamVars, storeVars, callVars>>

SpecLookup == InitR /\ [][NextL]_vars

\* ---- SpecStream --------------------------------------------------------
InitS == InitRegistry /\ InitStream /\ InitStore /\ CallIdle

NextS ==
    \E line_id \in LineIds, event_type \in EventTypes :
        Feed(line_id, event_type) /\ UNCHANGED <<regVars, storeVars, callVars>>

SpecStream == InitS /\ [][NextS]_vars

\* ---- SpecSession: one agent, the recommendation and the rolling window --
\* The two store modules are run side by side: every call is made to db.py and
\* to db_postgres.py, each on its own table.
Entry(agent, hist, cache_read, cache_write, cost) ==
    [agent |-> agent, conversation_history_chars |-> hist,
     cache_read_tokens |-> cache_read, cache_write_tokens |-> cache_write,
     estimated_cost_usd |-> cost]

SessionEntries ==
    { Entry("a", 2000, 4, 1, 24), Entry("a", 1000, 0, 0, 4),
      Entry("a", 500, 1, 1, 4),   Entry("a", Null, Null, Null, Null) }

SessionLimits == {799, 800, 1000, 2000}

InitQ == InitRegistry /\ StreamIdle /\ InitStore /\ CallIdle

NextQ ==
    \/ \E entry \in SessionEntries :
          /\ Len(usage) < MaxRows
          /\ log_usage(entry)
          /\ pg_log_usage(entry)
          /\ UNCHANGED <<now, agentVars, feedVars, regVars, streamVars, callVars>>
    \/ \E char_limit \in SessionLimits :
          /\ query_session_status("a", char_limit)
          /\ pg_query_session_status("a", char_limit)
          /\ UNCHANGED <<now, agentVars, feedVars, regVars, streamVars, callVars>>

SpecSession == InitQ /\ [][NextQ]_vars

\* ---- SpecBoundary: one agent, the session boundary ----------------------
BoundaryEntries ==
    { Entry("a", Null, 0, 0, Null),  Entry("a", 50, 0, 0, 4),
      Entry("a", 500, 0, 0, 24),     Entry("a", 1000, 0, 0, 4),
      Entry("a", 5000, 0, 0, 24),    Entry("a", 8000, 0, 0, 4),
      Entry("a", 10000, 0, 0, 24),   Entry("a", 40000, 0, 0, 4) }

DefaultCharLimit == 200000

NextB ==
    \/ \E entry \in BoundaryEntries :
          /\ Len(usage) < MaxBoundaryRows
          /\ log_usage(entry)
          /\ pg_log_usage(entry)
          /\ UNCHANGED <<now, agentVars, feedVars, regVars, streamVars, callVars>>
    \/ /\ query_session_status("a", DefaultCharLimit)
       /\ pg_query_session_status("a", DefaultCharLimit)
       /\ UNCHANGED <<now, agentVars, feedVars, regVars, streamVars, callVars>>

SpecBoundary == InitQ /\ [][NextB]_vars

\* ---- SpecPast: one agent, windows with several resets ------------------
MaxPastRows == 5        \* rows logged in one run of SpecPast

PastEntries ==
    { Entry("a", Null, 0, 0, Null), Entry("a", 500, 4, 1, 24),
      Entry("a", 5000, 0, 1, 4),    Entry("a", 8000, 4, 0, 24) }

NextPast ==
    \/ \E entry \in PastEntries :
          /\ Len(usage) < MaxPastRows
          /\ log_usage(entry)
          /\ pg_log_usage(entry)
          /\ UNCHANGED <<now, agentVars, feedVars, regVars, streamVars, callVars>>
    \/ \E char_limit \in {400, DefaultCharLimit} :
          /\ query_session_status("a", char_limit)
          /\ pg_query_session_status("a", char_limit)
          /\ UNCHANGED <<now, agentVars, feedVars, regVars, streamVars, callVars>>

SpecPast == InitQ /\ [][NextPast]_vars

\* ---- SpecHorizon: two agents, the clock moves ---------------------------
HorizonEntries == { Entry("a", 2000, 4, 1, 24), Entry("b", 500, 1, 1, 4) }

NextH ==
    \/ \E entry \in HorizonEntries :
          /\ Len(usage) < MaxHorizonRows
          /\ log_usage(entry)
          /\ pg_log_usage(entry)
          /\ UNCHANGED <<now, agentVars, feedVars, regVars, streamVars, callVars>>
    \/ \E agent \in {"a", "b"} :
          /\ query_session_status(agent, DefaultCharLimit)
          /\ pg_query_session_status(agent, DefaultCharLimit)
          /\ UNCHANGED <<now, agentVars, feedVars, regVars, streamVars, callVars>>
    \/ Tick /\ UNCHANGED <<agentVars, feedVars, regVars, streamVars, callVars>>

SpecHorizon == InitQ /\ [][NextH]_vars

\* no status of the runs rests on a rounding tie
NoTieIn(st) ==
    st.op = "query_session_status" /\ st.rows # <<>> =>
        LET session_rows == SessionRows(st.rows)
            last_5 == Last5(session_rows) IN
        /\ ~IsTie(SumCost(session_rows), CostUnitsPerMicro)
        /\ ~IsTie(OrZero(session_rows[Len(session_rows)].estimated_cost_usd),
                  CostUnitsPerMicro)
        /\ ~IsTie(SumCost(last_5), Len(last_5) * CostUnitsPerMicro)
        /\ ~IsTie(SumCacheWrite(last_5) * RatioScale, Max2(SumCache(last_5), 1))

NoRoundingTie == NoTieIn(status) /\ NoTieIn(pg_status)


\* ---- SpecPricing: get_model_pricing and calculate_cost -------------------
Upper(s) == [i \in DOMAIN s |-> IF s[i] >= 97 /\ s[i] <= 122 THEN s[i] - 32 ELSE s[i]]

TableKeys == {AnthropicCostTable[i].key : i \in DOMAIN AnthropicCostTable}
                \cup {OpenAICostTable[i].key : i \in DOMAIN OpenAICostTable}

m_empty      == <<>>
m_gemini     == <<103, 101, 109, 105, 110, 105, 45, 112, 114, 111>>              \* gemini-pro
m_gpt5       == <<103, 112, 116, 45, 53>>                                        \* gpt-5
m_llama_gpt4 == <<108, 108, 97, 109, 97, 45, 103, 112, 116, 45, 52>>             \* llama-gpt-4
m_gpt4_llama == <<103, 112, 116, 45, 52, 45, 108, 108, 97, 109, 97>>             \* gpt-4-llama
m_Mini       == <<71, 80, 84, 45, 52, 111, 45, 77, 105, 110, 105>>               \* GPT-4o-Mini
m_o1_mini    == <<111, 49, 45, 109, 105, 110, 105>>                              \* o1-mini
m_pfx        == <<118, 47>>                                                      \* v/
m_sfx        == <<45, 48, 57>>                                                   \* -09

\* every key alone, in capitals, and inside a longer name; names no key
\* occurs in; names two keys of one length occur in
ModelNames ==
    TableKeys \cup {Upper(k) : k \in TableKeys}
              \cup {m_pfx \o k \o m_sfx : k \in TableKeys}
              \cup {m_empty, m_gemini, m_gpt5, m_llama_gpt4, m_gpt4_llama, m_Mini, m_o1_mini}

MaxTokens == 2          \* the small token counts of a usage record

TokenKeys   == {"input_tokens", "output_tokens", "cache_read_tokens", "cache_write_tokens"}
TokenCounts == 0..MaxTokens \cup {1000}

UsageRecords == UNION {[keys -> TokenCounts] : keys \in SUBSET TokenKeys}

CostModels == {m_Mini, m_o1_mini, m_gemini, <<99, 108, 97, 117, 100, 101, 45, 111, 112, 117, 115, 45, 52, 45, 49>>}

PricingCalls ==
    {[op |-> "get_model_pricing", cls |-> c, model |-> m] : c \in Classes, m \in ModelNames}

CostCalls ==
    {[op |-> "calculate_cost", cls |-> c, usage |-> u, model |-> m] :
        c \in Classes, u \in UsageRecords, m \in CostModels}

InitP ==
    /\ InitRegistry /\ StreamIdle /\ InitStore
    /\ call \in PricingCalls \cup CostCalls
    /\ returned = Pending

NextP ==
    \/ call_get_model_pricing /\ UNCHANGED <<regVars, streamVars, storeVars>>
    \/ call_calculate_cost /\ UNCHANGED <<regVars, streamVars, storeVars>>

SpecPricing == InitP /\ [][NextP]_vars

\* ---- SpecAnalysis: analyze_request ---------------------------------------
\* texts of system prompt blocks
t_plain   == <<89, 111, 117, 32, 97, 114, 101, 32, 104, 101, 108, 112, 102, 117, 108, 46>>   \* You are helpful.
t_two     == <<35, 32, 84, 79, 79, 76, 83, 46, 109, 100, 32, 116, 104, 101, 110, 32, 35, 32, 65, 71, 69, 78, 84, 83, 46, 109, 100>>   \* # TOOLS.md then # AGENTS.md
t_lower   == <<35, 32, 97, 103, 101, 110, 116, 115, 46, 109, 100>>   \* # agents.md
t_nospace == <<35, 35, 85, 83, 69, 82, 46, 109, 100>>   \* ##USER.md
t_bare    == <<77, 69, 77, 79, 82, 89, 46, 109, 100, 32, 110, 111, 116, 101, 115>>   \* MEMORY.md notes

\* one text per workspace file, with its heading marker, all of different lengths
SectionTexts ==
    <<
       \* ## AGENTS.md 
       <<35, 35, 32, 65, 71, 69, 78, 84, 83, 46, 109, 100, 32>>,
       \* intro # SOUL.md x
       <<105, 110, 116, 114, 111, 32, 35, 32, 83, 79, 85, 76, 46, 109, 100, 32, 120>>,
       \* ## TOOLS.md xx
       <<35, 35, 32, 84, 79, 79, 76, 83, 46, 109, 100, 32, 120, 120>>,
       \* intro # IDENTITY.md xxx
       <<105, 110, 116, 114, 111, 32, 35, 32, 73, 68, 69, 78, 84, 73, 84, 89, 46, 109, 100, 32, 120, 120, 120>>,
       \* ## USER.md xxxx
       <<35, 35, 32, 85, 83, 69, 82, 46, 109, 100, 32, 120, 120, 120, 120>>,
       \* intro # HEARTBEAT.md xxxxx
       <<105, 110, 116, 114, 111, 32, 35, 32, 72, 69, 65, 82, 84, 66, 69, 65, 84, 46, 109, 100, 32, 120, 120, 120, 120, 120>>,
       \* ## BOOTSTRAP.md xxxxxx
       <<35, 35, 32, 66, 79, 79, 84, 83, 84, 82, 65, 80, 46, 109, 100, 32, 120, 120, 120, 120, 120, 120>>,
       \* intro # MEMORY.md xxxxxxx
       <<105, 110, 116, 114, 111, 32, 35, 32, 77, 69, 77, 79, 82, 89, 46, 109, 100, 32, 120, 120, 120, 120, 120, 120, 120>> >>

Texts == {t_plain, t_two, t_lower, t_nospace, t_bare}
           \cup {SectionTexts[i] : i \in DOMAIN SectionTexts}

TextBlock(text) == PDict([type |-> PStr(<<116, 101, 120, 116>>), text |-> PStr(text)])

\* blocks with a text, a block that is no dict, a block without text, and
\* blocks whose text is None or a number
Blocks ==
    {TextBlock(t) : t \in Texts}
        \cup {PStr(t_two), PDict([type |-> PStr(<<116, 101, 120, 116>>)]),
              PDict([text |-> PNone]), PDict([text |-> PInt(12)])}

\* the blocks the longer prompts are made of
CoreBlocks ==
    {TextBlock(t_two), TextBlock(t_plain), TextBlock(t_lower), TextBlock(SectionTexts[2]),
     PStr(t_two), PDict([text |-> PNone])}

MaxBlocks == 2          \* blocks of a system prompt drawn from CoreBlocks

RECURSIVE SeqsUpTo(_, _)
SeqsUpTo(S, n) ==
    IF n = 0 THEN {<<>>}
    ELSE LET shorter == SeqsUpTo(S, n - 1)
         IN  shorter \cup {Append(q, x) : q \in {r \in shorter : Len(r) = n - 1}, x \in S}

\* the prompt with one block per workspace file
AllSections == PList([i \in DOMAIN SectionTexts |-> TextBlock(SectionTexts[i])])

Absent == [t |-> "absent", n |-> 0, s |-> <<>>, e |-> <<>>, f |-> EmptyDict]

Systems ==
    {PList(q) : q \in SeqsUpTo(CoreBlocks, MaxBlocks)}
        \cup {PList(<<b>>) : b \in Blocks}
        \cup {PStr(t) : t \in Texts \cup {<<>>}}
        \cup {AllSections, Absent, PNone, PInt(5), PDict([text |-> PStr(t_two)])}

c_hi == <<104, 105>>     \* hi

Msg(role, content) == PDict([role |-> PStr(role), content |-> content])

\* a list of content blocks: a text block, a str, a block whose text is a
\* number, a number
ContentBlocks == PList(<<TextBlock(t_lower), PStr(c_hi), PDict([text |-> PInt(5)]), PInt(7)>>)

\* messages of every role, without a role, with a role that is None, with
\* content json.dumps cannot encode, and an entry that is no dict
Messages ==
    { Msg(c_user, PStr(c_hi)),
      Msg(c_assistant, PStr(t_plain)),
      Msg(c_system, PStr(t_plain)),
      Msg(c_developer, ContentBlocks),
      Msg(<<116, 111, 111, 108>>, PStr(c_hi)),
      Msg(<<85, 115, 101, 114>>, PStr(c_hi)),
      PDict([content |-> PStr(c_hi)]),
      PDict([role |-> PNone, content |-> PStr(c_hi)]),
      PDict([role |-> PStr(c_user)]),
      Msg(c_user, PObject),
      Msg(c_assistant, PList(<<PStr(c_hi), PObject>>)),
      Msg(<<116, 111, 111, 108>>, PObject),
      Msg(c_system, PObject),
      Msg(c_system, PList(<<PObject, PStr(c_hi)>>)),
      Msg(c_developer, PNone),
      Msg(c_system, PDict([a |-> PInt(1)])),
      Msg(c_developer, PDict([a |-> PObject])),
      PStr(c_hi) }

\* the messages the longer requests are made of
CoreMessages ==
    { Msg(c_user, PStr(c_hi)),
      Msg(c_assistant, PStr(t_plain)),
      Msg(c_system, PStr(t_plain)),
      Msg(c_developer, ContentBlocks),
      Msg(c_user, PObject),
      Msg(c_system, PObject),
      Msg(c_system, PList(<<PObject, PStr(c_hi)>>)) }

MaxMessages == 2        \* messages of a request drawn from CoreMessages

MessageLists ==
    {PList(q) : q \in SeqsUpTo(CoreMessages, MaxMessages)}
        \cup {PList(<<m>>) : m \in Messages}
        \cup {Absent, PNone}

Tool == PDict([name |-> PStr(c_hi)])

ToolLists     == {Absent, PList(<<>>), PList(<<Tool, Tool>>), PNone}
FunctionLists == {Absent, PList(<<Tool, Tool, Tool>>)}

\* the request body with the keys that are given
Body(system, messages, tools, functions) ==
    LET given == [system |-> system, messages |-> messages,
                  tools |-> tools, functions |-> functions]
    IN  [k \in {x \in DOMAIN given : given[x] # Absent} |-> given[k]]

AnalysisCalls ==
    {[op |-> "analyze_request", cls |-> c, body |-> Body(s, m, Absent, Absent)] :
        c \in {"AnthropicProvider", "OpenAICompatibleProvider"}, s \in Systems,
        m \in {Absent, PList(<<Msg(c_user, PStr(c_hi))>>)}}
    \cup
    {[op |-> "analyze_request", cls |-> c, body |-> Body(s, m, Absent, Absent)] :
        c \in {"AnthropicProvider", "OpenAICompatibleProvider"},
        s \in {Absent, PStr(t_two)}, m \in MessageLists}
    \cup
    {[op |-> "analyze_request", cls |-> c, body |-> Body(Absent, m, t, f)] :
        c \in Classes, t \in ToolLists, f \in FunctionLists,
        m \in {Absent, PList(<<Msg(c_user, PStr(c_hi)), Msg(<<116, 111, 111, 108>>, PObject)>>)}}

InitA ==
    /\ InitRegistry /\ StreamIdle /\ InitStore
    /\ call \in AnalysisCalls
    /\ returned = Pending

NextA ==
    call_analyze_request /\ UNCHANGED <<regVars, streamVars, storeVars>>

SpecAnalysis == InitA /\ [][NextA]_vars

\* ---- SpecWrite: log_usage against a store that can fail -------------------
MaxWrites == 3          \* log_usage calls of one run

\* what the store does to the one statement of a call: it runs, or the
\* driver raises (no connection, lock or statement timeout)
StoreFailures == {"None", "OperationalError"}

\* the agent of a record whose agent is None
NoneAgent == "None"

\* sqlite: usage.agent is NOT NULL, and entry.get("agent") of a record whose
\* agent is None is NULL
SqliteOutcome(entry, failure) ==
    IF failure # "None" THEN failure
    ELSE IF entry.agent = NoneAgent THEN "IntegrityError"
    ELSE "None"

\* postgres: _get_or_create_agent calls agent_name.lower()
PgOutcome(entry, failure) ==
    IF failure # "None" THEN failure
    ELSE IF entry.agent = NoneAgent THEN "AttributeError"
    ELSE "None"

WriteEntries == { Entry("a", 2000, 4, 1, 24), Entry("a", 500, 1, 1, 4),
                  Entry(NoneAgent, 1000, 0, 0, 4) }

\* the calls made so far, and the rows each store took
Written(backend) == IF returned = Pending THEN 0 ELSE returned[backend].stored
WritesMade       == IF returned = Pending THEN 0 ELSE returned.writes

\* what a call leaves behind: how it ended, the statements it sent, the
\* record as it is after the call
Outcome(backend, entry, exc) ==
    [kind     |-> IF exc = "None" THEN "return" ELSE "raise",
     exc      |-> exc,
     attempts |-> 1,
     entry    |-> entry,
     stored   |-> Written(backend) + (IF exc = "None" THEN 1 ELSE 0)]

sqlite_write_retrying(entry, exc) == log_usage(entry)

\* conn.execute("INSERT ..."); conn.commit(): no try, no loop
sqlite_write(entry, exc) ==
    IF exc = "None" THEN log_usage(entry)
    ELSE /\ usage' = usage
         /\ status' = [NoStatus EXCEPT !.op = "log_usage"]

\* cur.execute("INSERT ..."); conn.commit(); finally: _put_conn(conn), which
\* rolls back what was not committed
pg_write(entry, exc) ==
    IF exc = "None" THEN pg_log_usage(entry)
    ELSE /\ requests' = requests
         /\ pg_status' = [NoStatus EXCEPT !.op = "log_usage"]

call_log_usage(entry, sqlite_failure, pg_failure) ==
    /\ WritesMade < MaxWrites
    /\ sqlite_write(entry, SqliteOutcome(entry, sqlite_failure))
    /\ pg_write(entry, PgOutcome(entry, pg_failure))
    /\ call' = [op |-> "log_usage", entry |-> entry,
                sqlite_failure |-> sqlite_failure, pg_failure |-> pg_failure]
    /\ returned' = [kind   |-> "done",
                    writes |-> WritesMade + 1,
                    sqlite |-> Outcome("sqlite", entry, SqliteOutcome(entry, sqlite_failure)),
                    pg     |-> Outcome("pg", entry, PgOutcome(entry, pg_failure))]

InitW == InitRegistry /\ StreamIdle /\ InitStore /\ CallIdle

NextW ==
    \/ \E entry \in WriteEntries, sf \in StoreFailures, pf \in StoreFailures :
          /\ call_log_usage(entry, sf, pf)
          /\ UNCHANGED <<now, agentVars, feedVars, regVars, streamVars>>
    \/ /\ query_session_status("a", DefaultCharLimit)
       /\ pg_query_session_status("a", DefaultCharLimit)
       /\ UNCHANGED <<now, agentVars, feedVars, regVars, streamVars, callVars>>

SpecWrite == InitW /\ [][NextW]_vars

\* ---- SpecInFlight: concurrent get calls, registrations fixed -------------
FlightNames == {n_anthropic, n_Anthropic, n_openai}

NextI ==
    \/ \E name \in FlightNames :
          StartGet(name) /\ UNCHANGED <<streamVars, storeVars, callVars>>
    \/ \E t \in DOMAIN inflight :
          CheckCache(t) /\ UNCHANGED <<streamVars, storeVars, callVars>>
    \/ \E t \in DOMAIN inflight :
          Construct(t) /\ UNCHANGED <<streamVars, storeVars, callVars>>
    \/ \E t \in DOMAIN inflight :
          Store(t) /\ UNCHANGED <<streamVars, storeVars, callVars>>
    \/ \E t \in DOMAIN inflight :
          Return(t) /\ UNCHANGED <<streamVars, storeVars, callVars>>

SpecInFlight == InitR /\ [][NextI]_vars

\* ---- SpecRoundTrip: a usage record written and read back -----------------
c_end_turn == <<101, 110, 100, 95, 116, 117, 114, 110>>

\* what the pipeline put into a field: nothing, 0, or a count
FieldValues == {Absent, PInt(0), PInt(7)}

\* usage records: request metrics, sections of the system prompt, tokens, cost
\* and stop reason
RoundTripEntries ==
    {LET given == [agent |-> PStr(<<97>>), model |-> PStr(c_hi),
                   message_count |-> PInt(2),
                   system_prompt_total_chars |-> total, base_prompt_chars |-> base,
                   workspace_soul_chars |-> soul, workspace_memory_chars |-> memory,
                   input_tokens |-> tokens, estimated_cost_usd |-> PInt(24),
                   stop_reason |-> stop]
     IN  [k \in {x \in DOMAIN given : given[x] # Absent} |-> given[k]] :
        total \in {PInt(12)}, base \in {Absent, PInt(5)},
        soul \in FieldValues, memory \in FieldValues, tokens \in FieldValues,
        stop \in {Absent, PNone, PStr(c_end_turn)}}

InitT ==
    /\ InitRegistry /\ StreamIdle /\ InitStore
    /\ call \in {[op |-> "log_usage, query_usage", entry |-> e] : e \in RoundTripEntries}
    /\ returned = Pending

NextT ==
    call_log_usage_query_usage /\ UNCHANGED <<regVars, streamVars, storeVars>>

SpecRoundTrip == InitT /\ [][NextT]_vars

\* ---- SpecAgents: agent names that share a slug ---------------------------
n_My_Agent  == <<77, 121, 32, 65, 103, 101, 110, 116>>      \* My Agent
n_my_agent  == <<109, 121, 45, 97, 103, 101, 110, 116>>     \* my-agent
n_b         == <<98>>                                       \* b

AgentNames == {n_My_Agent, n_my_agent, n_b}

MaxAgentRows == 3       \* records logged in one run

\* the records of an agent name differ from those of every other name
AgentEntries ==
    { Entry(n_My_Agent, 1200, 4, 1, 24), Entry(n_my_agent, 500, 1, 1, 4),
      Entry(n_b, 300, 1, 1, 4) }

NextG ==
    \/ \E entry \in AgentEntries :
          /\ Len(usage) < MaxAgentRows
          /\ log_usage(entry)
          /\ pg_log_usage_agent(entry)
          /\ UNCHANGED <<now, feedVars, regVars, streamVars, callVars>>
    \/ \E agent \in AgentNames :
          /\ query_session_status(agent, DefaultCharLimit)
          /\ pg_query_session_status(agent, DefaultCharLimit)
          /\ UNCHANGED <<now, agentVars, feedVars, regVars, streamVars, callVars>>
    \/ \E agent \in AgentNames :
          /\ pg_query_usage(agent)
          /\ UNCHANGED <<usage, status, now, agentVars, feedVars, regVars, streamVars,
                         callVars>>

SpecAgents == InitQ /\ [][NextG]_vars

\* ---- SpecFeed: records logged while a client polls the live feed ----------
NextE ==
    \/ \E uuid \in 1..MaxEvents :
          /\ log_event(uuid)
          /\ UNCHANGED <<client, usage, requests, now, status, pg_status, agentVars,
                         regVars, streamVars, callVars>>
    \/ \E limit \in 1..MaxLimit :
          /\ connect(limit)
          /\ UNCHANGED <<usage, requests, now, status, pg_status, agentVars,
                         regVars, streamVars, callVars>>
    \/ \E backend \in {"sqlite", "pg"} :
          /\ poll(backend)
          /\ UNCHANGED <<usage, requests, now, status, pg_status, agentVars,
                         regVars, streamVars, callVars>>

\* each client polls again and again
SpecFeed ==
    InitQ /\ [][NextE]_vars /\ WF_feedVars(poll("sqlite")) /\ WF_feedVars(poll("pg"))

\* ---- SpecForward: get_auth_headers and rewrite_request --------------------
\* credentials, protocol headers and headers of the client's own connection
HeaderNames ==
    {"x-api-key", "anthropic-version", "anthropic-beta",
     "anthropic-dangerous-direct-browser-access", "authorization", "cookie", "host"}

HeaderValues == {"", "sk-1", "sk-2"}

MaxHeaders == 3         \* headers of one inbound request

InboundHeaders ==
    UNION {[names -> HeaderValues] :
              names \in {S \in SUBSET HeaderNames : Cardinality(S) <= MaxHeaders}}

AuthCalls ==
    {[op |-> "get_auth_headers", cls |-> c, headers |-> h] :
        c \in Classes, h \in InboundHeaders}

RewriteCalls ==
    {[op |-> "rewrite_request", cls |-> c, body |-> Body(s, m, t, Absent)] :
        c \in Classes, s \in {Absent, PStr(t_two)}, m \in MessageLists,
        t \in {Absent, PList(<<Tool, Tool>>)}}

InitF ==
    /\ InitRegistry /\ StreamIdle /\ InitStore
    /\ call \in AuthCalls \cup RewriteCalls
    /\ returned = Pending

NextF ==
    \/ call_get_auth_headers /\ UNCHANGED <<regVars, streamVars, storeVars>>
    \/ call_rewrite_request /\ UNCHANGED <<regVars, streamVars, storeVars>>

SpecForward == InitF /\ [][NextF]_vars

(***************************************************************************)
(* Claims                                                                  *)
(***************************************************************************)
UsageFields == {"input_tokens", "output_tokens", "cache_read_tokens", "cache_write_tokens",
                "stop_reason"}

LastLine == Lines[last.line]

\* C1: extract_usage_from_stream never raises, for every provider, line and
\* event kind: it returns a fragment or none, and returns none for a line that
\* is not a data line, for the [DONE] sentinel, for a payload that does not
\* parse, and for a payload that is not an object (it carries no usage).
C1_ExtractNeverRaises ==
    last.line # 0 =>
        /\ last.kind \in {"none", "frag"}
        /\ ( \/ ~IsDataLine(LastLine)
             \/ LastLine.body.kind \in {"done", "malformed"}
             \/ LastLine.body.value.t # "obj" ) => last.kind = "none"

\* the index of the last fragment fed that carries field f (0: none does)
LastCarrying(f) ==
    LET carrying == {i \in 1..Len(frags) : f \in DOMAIN frags[i]} IN
    IF carrying = {} THEN 0 ELSE CHOOSE i \in carrying : \A j \in carrying : j <= i

\* C2: the merged usage record has exactly the five usage fields; each field
\* holds the value of the last fragment fed that carries it, and its zero /
\* absent default when no fragment carries it.  So a fragment leaves the
\* fields it does not carry as they were, and no field is a sum.
C2_LastWriteWins ==
    /\ DOMAIN acc = UsageFields
    /\ \A f \in UsageFields :
          acc[f] = IF LastCarrying(f) = 0 THEN DefaultUsage[f]
                   ELSE frags[LastCarrying(f)][f]

\* C2 witness: input_tokens 100 from a first fragment, then output_tokens 40
\* and stop_reason end_turn from a second one; the cache counts stay 0
C2_Witness ==
    /\ Len(frags) = 2
    /\ "output_tokens" \notin DOMAIN frags[1]
    /\ "input_tokens" \notin DOMAIN frags[2]
    /\ acc = [k \in UsageFields |->
                CASE k = "input_tokens" -> JNum(100)
                  [] k = "output_tokens" -> JNum(40)
                  [] k = "stop_reason" -> JStr("end_turn")
                  [] OTHER -> JNum(0)]

\* C9: a get(name) without config override returns the instance the previous
\* such call returned when no unregister(name) or clear_cache came between,
\* and constructs nothing; the first such call returns the cached instance,
\* constructing and caching one of the registered class when none is cached.
C9_DefaultInstanceShared ==
    [][ (ret'.op = "get" /\ ~ret'.config.given /\ ret'.kind = "instance") =>
          LET n == Lower(ret'.name) IN
          IF LastDefaultOf(n) # 0
          THEN ret'.id = LastDefaultOf(n) /\ heap' = heap /\ _instances' = _instances
          ELSE /\ ret'.id = _instances'[n]
               /\ n \notin DOMAIN _instances =>
                     /\ heap' = Append(heap, [cls |-> _providers[n], config |-> EmptyDict])
                     /\ ret'.id = Len(heap') ]_vars

\* C9 witness: a get without override returned the default instance although
\* a get with override constructed another object after it
C9_Witness ==
    /\ ret.op = "get" /\ ~ret.config.given /\ ret.kind = "instance"
    /\ ret.id < Len(heap)
    /\ heap[Len(heap)].config # EmptyDict
    /\ LastDefaultOf(Lower(ret.name)) = ret.id

\* C10: a get(name, config) with a config override, whatever mapping it is,
\* returns a newly constructed object that is not in the cache of default
\* instances, and leaves the cache as it was.
C10_OverrideNeverCached ==
    [][ (ret'.op = "get" /\ ret'.config.given /\ ret'.kind = "instance") =>
          /\ heap' = Append(heap, heap'[Len(heap')])
          /\ ret'.id = Len(heap')
          /\ _instances' = _instances
          /\ \A n \in DOMAIN _instances' : _instances'[n] # ret'.id ]_vars

\* ---- what the frames of the two protocols yield ---------------------------
\* the payload of the last line fed, a data line that parsed
LastFrame == IsDataLine(LastLine) /\ LastLine.body.kind = "json"
LastData  == LastLine.body.value

\* field key of v is there: v is an object that has it, and it is not null
Present(v, key) == IsDict(v) /\ key \in DOMAIN v.f /\ v.f[key] # JNull

\* field key of v is there and is not empty (0, "", [], {} are empty)
NonEmpty(v, key) == Present(v, key) /\ PyTruthy(v.f[key])

\* field key of v, 0 when it is absent
OrZeroField(v, key) == IF IsDict(v) /\ key \in DOMAIN v.f THEN v.f[key] ELSE JNum(0)

Yields(f) == last.kind = "frag" /\ f \in DOMAIN last.frag

\* two fragments that report no common field merge to the same record in
\* either order
MergeCommutes ==
    (Len(frags) = 2 /\ (DOMAIN frags[1]) \cap (DOMAIN frags[2]) = {}) =>
        acc = Merge(Merge(DefaultUsage, frags[2]), frags[1])

\* the statements of C13 for the frames that count: counts tells, for a
\* message_start frame, whether its message.usage counts as present
AnthropicFrameFields(counts) ==
    (provider = "AnthropicProvider" /\ last.line # 0 /\ LastFrame) =>
        LET message == IF Present(LastData, "message") THEN LastData.f["message"] ELSE JNull
            msg_usage == IF Present(message, "usage") THEN message.f["usage"] ELSE JNull
            d_usage == IF Present(LastData, "usage") THEN LastData.f["usage"] ELSE JNull
            delta   == IF Present(LastData, "delta") THEN LastData.f["delta"] ELSE JNull IN
        /\ (last.event_type = "message_start" /\ msg_usage # JNull /\ counts) =>
              /\ last.kind = "frag"
              /\ DOMAIN last.frag = {"input_tokens", "cache_read_tokens", "cache_write_tokens"}
              /\ last.frag["input_tokens"] = OrZeroField(msg_usage, "input_tokens")
              /\ last.frag["cache_read_tokens"] =
                     OrZeroField(msg_usage, "cache_read_input_tokens")
              /\ last.frag["cache_write_tokens"] =
                     OrZeroField(msg_usage, "cache_creation_input_tokens")
        /\ (last.event_type = "message_delta" /\ (counts \/ last.kind # "raise")) =>
              /\ Yields("output_tokens") <=> Present(d_usage, "output_tokens")
              /\ Yields("stop_reason") <=> NonEmpty(delta, "stop_reason")
              /\ Yields("output_tokens") =>
                     last.frag["output_tokens"] = d_usage.f["output_tokens"]
              /\ Yields("stop_reason") => last.frag["stop_reason"] = delta.f["stop_reason"]
              /\ last.kind = "frag" => DOMAIN last.frag \subseteq {"output_tokens", "stop_reason"}
        /\ last.event_type \notin {"message_start", "message_delta"} => last.kind = "none"

\* C13: in the Anthropic protocol a message_start frame whose message.usage
\* is present yields exactly input_tokens, cache_read_tokens and
\* cache_write_tokens (absent sub-fields 0); a message_delta frame yields
\* output_tokens when usage.output_tokens is present and stop_reason when
\* delta.stop_reason is not empty; a frame of another or no event kind yields
\* none; a message_start and a message_delta fragment merge to the same
\* record in either order.
C13_AnthropicFrames == AnthropicFrameFields(TRUE) /\ MergeCommutes

\* the same for the frames on which the call returns and, for message_start,
\* whose message.usage is a non-empty object
AnthropicFramesReturned ==
    /\ AnthropicFrameFields(
          /\ last.kind # "raise"
          /\ NonEmpty(IF Present(LastData, "message") THEN LastData.f["message"] ELSE JNull,
                      "usage"))
    /\ MergeCommutes

\* the statements of C14 for the frames that count
OpenAIFrameFields(counts) ==
    (provider # "AnthropicProvider" /\ last.line # 0 /\ LastFrame /\ counts) =>
        LET u_json  == IF NonEmpty(LastData, "usage") THEN LastData.f["usage"] ELSE JNull
            choices == IF NonEmpty(LastData, "choices") THEN LastData.f["choices"] ELSE JNull
            first   == IF choices.t = "arr" THEN choices.e[1] ELSE JNull
            hasUsage   == u_json # JNull
            hasDetails == NonEmpty(u_json, "prompt_tokens_details")
            hasFinish  == NonEmpty(first, "finish_reason") IN
        /\ Yields("input_tokens") <=> hasUsage
        /\ Yields("output_tokens") <=> hasUsage
        /\ Yields("cache_read_tokens") <=> hasDetails
        /\ Yields("stop_reason") <=> hasFinish
        /\ ~Yields("cache_write_tokens")
        /\ Yields("input_tokens") =>
              /\ last.frag["input_tokens"] = OrZeroField(u_json, "prompt_tokens")
              /\ last.frag["output_tokens"] = OrZeroField(u_json, "completion_tokens")
        /\ Yields("stop_reason") => last.frag["stop_reason"] = first.f["finish_reason"]
        /\ (~hasUsage /\ ~hasFinish) => last.kind = "none"

\* a finish-reason fragment and a usage fragment were merged: the record holds
\* the token counts of the one and the finish reason of the other
FinishAndUsageMerged ==
    (provider # "AnthropicProvider" /\ Len(frags) = 2) =>
        \A i, j \in {1, 2} :
            (DOMAIN frags[i] = {"stop_reason"} /\ "stop_reason" \notin DOMAIN frags[j]) =>
                /\ acc["stop_reason"] = frags[i]["stop_reason"]
                /\ acc["input_tokens"] = frags[j]["input_tokens"]
                /\ acc["output_tokens"] = frags[j]["output_tokens"]

\* C14: in the OpenAI-compatible protocol a data frame yields input_tokens
\* and output_tokens (and cache_read_tokens when prompt_tokens_details is not
\* empty) exactly when its usage field is not empty, stop_reason exactly when
\* its first choice has a finish_reason that is not empty, never
\* cache_write_tokens, and none when it has neither; a finish-reason frame
\* and a usage frame merge to a record that holds both.
C14_OpenAIFrames == OpenAIFrameFields(TRUE) /\ FinishAndUsageMerged

\* the same for the frames on which the call returns
OpenAIFramesReturned == OpenAIFrameFields(last.kind # "raise") /\ FinishAndUsageMerged

\* C11: a get for a name that is not registered (letter case aside) raises the
\* unknown-provider error, whose message lists exactly the registered names;
\* it returns no instance, constructs none, and leaves the registrations and
\* the cache as they were.  get_or_none returns None in exactly these cases
\* and otherwise the instance get returns: a new object for a config override,
\* else the cached default instance.
C11_UnknownProviderFails ==
    [][ (ret'.op \in {"get", "get_or_none"}) =>
          LET n == Lower(ret'.name) IN
          IF n \notin DOMAIN _providers
          THEN /\ ret'.op = "get" =>
                     ret'.kind = "ValueError" /\ ret'.available = DOMAIN _providers
               /\ ret'.op = "get_or_none" => ret'.kind = "None"
               /\ _providers' = _providers /\ _instances' = _instances /\ heap' = heap
          ELSE /\ ret'.kind = "instance"
               /\ heap'[ret'.id].cls \in Classes
               /\ IF Truthy(ret'.config)
                  THEN ret'.id = Len(heap) + 1 /\ _instances' = _instances
                  ELSE ret'.id = _instances'[n]
                       /\ (n \in DOMAIN _instances => ret'.id = _instances[n]) ]_vars

\* C11 witness: get_or_none returned None for a name that was registered
\* before and is no more, the other names still being registered
C11_Witness ==
    /\ ret.op = "get_or_none" /\ ret.kind = "None"
    /\ Lower(ret.name) = n_anthropic
    /\ n_mycloud \in DOMAIN _providers

\* C12: register stores the class under the lower-cased name, replacing the
\* registration of a name that differs in letter case only and leaving every
\* other registration and the cache as they were; registering the same pair
\* again changes nothing; get, is_registered and unregister resolve a name in
\* any letter case to the entry of the lower-cased name.
C12_RegisterCaseInsensitive ==
    [][ /\ ret'.op = "register" =>
             /\ DOMAIN _providers' = (DOMAIN _providers) \cup {Lower(ret'.name)}
             /\ _providers'[Lower(ret'.name)] = ret'.cls
             /\ \A k \in (DOMAIN _providers) \ {Lower(ret'.name)} :
                    _providers'[k] = _providers[k]
             /\ _instances' = _instances
             /\ (ret.op = "register" /\ ret.name = ret'.name /\ ret.cls = ret'.cls) =>
                    _providers' = _providers
        /\ ret'.op = "is_registered" =>
             (ret'.kind = "True" <=> Lower(ret'.name) \in DOMAIN _providers)
        /\ ret'.op = "get" =>
             (ret'.kind = "instance" <=> Lower(ret'.name) \in DOMAIN _providers)
        /\ ret'.op = "unregister" =>
             /\ ret'.kind = "True" <=> Lower(ret'.name) \in DOMAIN _providers
             /\ DOMAIN _providers' = (DOMAIN _providers) \ {Lower(ret'.name)} ]_vars

\* C12 witness: "Anthropic" was registered with another class and replaced
\* the registration of "anthropic"
C12_Witness ==
    /\ ret.op = "register" /\ ret.name = n_Anthropic
    /\ ret.cls = "OpenAICompatibleProvider"
    /\ DOMAIN _providers = DOMAIN ImportedProviders
    /\ _providers[n_anthropic] = "OpenAICompatibleProvider"


\* ---- pricing and cost --------------------------------------------------
Returned(op) == call.op = op /\ returned.kind = "return"

\* the entries of the table whose key occurs in the lower-cased model name
OccurringIn(table, model) ==
    {i \in DOMAIN table : Occurs(table[i].key, Lower(model))}

\* those of them no other occurring key is longer than
LongestIn(table, model) ==
    {i \in OccurringIn(table, model) :
        \A j \in OccurringIn(table, model) : Len(table[j].key) <= Len(table[i].key)}

RatesOfLongestKey(value, table, model) ==
    IF OccurringIn(table, model) = {} THEN value = ZeroRates
    ELSE \E i \in LongestIn(table, model) :
            /\ value.input = table[i].input
            /\ value.output = table[i].output
            /\ value.cache_read = table[i].cache_read
            /\ value.cache_write = table[i].cache_write

MiniRates   == [input |-> 150, output |-> 600, cache_read |-> 75, cache_write |-> 0]
O1MiniRates == [input |-> 3000, output |-> 12000, cache_read |-> 1500, cache_write |-> 0]

CountOf(key) == IF key \in DOMAIN call.usage THEN call.usage[key] ELSE 0

NoTokens == \A key \in TokenKeys : CountOf(key) = 0

\* the four products, in units of 10^-9 USD
SumOfProducts(rates) ==
    CountOf("input_tokens") * rates.input
      + CountOf("output_tokens") * rates.output
      + CountOf("cache_read_tokens") * rates.cache_read
      + CountOf("cache_write_tokens") * rates.cache_write

CostIsSumOfProducts ==
    Returned("calculate_cost") =>
        /\ returned.value = SumOfProducts(get_model_pricing(call.cls, call.model))
        /\ NoTokens => returned.value = 0
        /\ OccurringIn(CostTable(call.cls), call.model) = {} => returned.value = 0
        /\ returned.value >= 0

SameCallSameCost ==
    (Returned("calculate_cost") /\ returned'.kind = "return" /\ call' = call)
        => returned'.value = returned.value

\* C16: calculate_cost is the sum over the four categories of count x rate /
\* 1,000,000 with a missing count read as 0; it is 0 when all counts are 0,
\* 0 for a model no pricing key occurs in, never negative, and a repeated
\* call with the same counts and model returns the same amount.
C16_CostIsSumOfProducts == []CostIsSumOfProducts /\ [][SameCallSameCost]_vars

C16_Witness ==
    /\ Returned("calculate_cost")
    /\ returned.calls = MaxCalls
    /\ call.cls = "OpenAICompatibleProvider"
    /\ call.model = m_Mini
    /\ DOMAIN call.usage = {"input_tokens", "cache_read_tokens"}
    /\ call.usage["input_tokens"] = 1000
    /\ call.usage["cache_read_tokens"] = 2
    /\ returned.value = 150150

\* ---- request analysis ----------------------------------------------------
Analyzed(classes) == Returned("analyze_request") /\ call.cls \in classes

GivenOr(key, default) == IF key \in DOMAIN call.body THEN call.body[key] ELSE default

\* the blocks of a system prompt: the one block a string stands for, or the
\* dicts of the list
PromptBlocks(system) ==
    IF system.t = "str" THEN <<PDict([text |-> system])>>
    ELSE SelectSeq(system.e, LAMBDA b : b.t = "dict")

\* the text whose length is counted: a missing text is empty, a text that is
\* no str counts as str() prints it
TextOf(block) ==
    IF "text" \notin DOMAIN block.f THEN <<>>
    ELSE IF block.f["text"].t = "str" THEN block.f["text"].s
    ELSE PyStr(block.f["text"])

\* the sections in their fixed order: AGENTS.md, SOUL.md, TOOLS.md,
\* IDENTITY.md, USER.md, HEARTBEAT.md, BOOTSTRAP.md, MEMORY.md
SectionOrder ==
    << "workspace_agents_chars", "workspace_soul_chars", "workspace_tools_chars",
       "workspace_identity_chars", "workspace_user_chars", "workspace_heartbeat_chars",
       "workspace_bootstrap_chars", "workspace_memory_chars" >>

HasHeading(i, text) ==
    \/ Occurs(<<35, 32>> \o WORKSPACE_FILE_MAP[i].filename, text)
    \/ Occurs(<<35, 35, 32>> \o WORKSPACE_FILE_MAP[i].filename, text)

\* the one bucket of a text
BucketOf(text) ==
    IF \E i \in DOMAIN SectionOrder : HasHeading(i, text)
    THEN SectionOrder[CHOOSE i \in DOMAIN SectionOrder :
                          /\ HasHeading(i, text)
                          /\ \A j \in 1..(i - 1) : ~HasHeading(j, text)]
    ELSE "base_prompt_chars"

RECURSIVE AttributedTo(_, _, _)
AttributedTo(bucket, blocks, i) ==
    IF i > Len(blocks) THEN 0
    ELSE AttributedTo(bucket, blocks, i + 1)
           + (IF BucketOf(TextOf(blocks[i])) = bucket THEN Len(TextOf(blocks[i])) ELSE 0)

RECURSIVE SumSections(_, _)
SumSections(value, i) ==
    IF i > Len(SectionOrder) THEN 0
    ELSE value[SectionOrder[i]] + SumSections(value, i + 1)

\* C17: each block's text length of an Anthropic system prompt goes to exactly
\* one bucket, the section of the first name in the fixed order whose heading
\* marker occurs in the text, else base_prompt_chars; the total is
\* base_prompt_chars plus the eight section counts; one block per section
\* gives each section its block's length and base_prompt_chars 0.
C17_OneBucketPerBlock ==
    Analyzed({"AnthropicProvider"}) =>
        LET system == GivenOr("system", PList(<<>>))
            value  == returned.value
        IN  /\ \A i \in DOMAIN SectionOrder :
                  WORKSPACE_FILE_MAP[i].metric_key = SectionOrder[i]
            /\ value["system_prompt_total_chars"]
                  = value["base_prompt_chars"] + SumSections(value, 1)
            /\ system.t \in {"str", "list"} =>
                  \A bucket \in {"base_prompt_chars"} \cup WorkspaceKeys :
                      value[bucket] = AttributedTo(bucket, PromptBlocks(system), 1)
            /\ system = AllSections =>
                  /\ value["base_prompt_chars"] = 0
                  /\ \A i \in DOMAIN SectionOrder :
                        value[SectionOrder[i]] = Len(SectionTexts[i])

C17_Witness ==
    /\ Analyzed({"AnthropicProvider"})
    /\ GivenOr("system", PNone) = PList(<<TextBlock(t_two), TextBlock(t_plain)>>)
    /\ returned.value["workspace_agents_chars"] = 27
    /\ returned.value["workspace_tools_chars"] = 0
    /\ returned.value["base_prompt_chars"] = 16
    /\ returned.value["system_prompt_total_chars"] = 43

\* the messages of the call's body: the entries of its list
MessagesGiven ==
    LET messages == GivenOr("messages", PList(<<>>))
    IN  IF messages.t = "list" THEN messages.e ELSE <<>>

\* the messages whose role is exactly the given one
WithRole(role) ==
    {i \in DOMAIN MessagesGiven :
        /\ MessagesGiven[i].t = "dict"
        /\ "role" \in DOMAIN MessagesGiven[i].f
        /\ MessagesGiven[i].f["role"] = PStr(role)}

\* the declared tools: the tools list, for an OpenAI-compatible body the
\* functions list when no tools are given
ToolsDeclared ==
    LET fallback == IF call.cls = "AnthropicProvider" THEN PList(<<>>)
                    ELSE GivenOr("functions", PList(<<>>))
        tools    == GivenOr("tools", fallback)
    IN  IF tools.t = "list" THEN Len(tools.e) ELSE 0

\* a system or developer message whose content is a string
TextOnly(i) ==
    /\ "content" \in DOMAIN MessagesGiven[i].f
    /\ MessagesGiven[i].f["content"].t = "str"

RECURSIVE ContentChars(_)
ContentChars(S) ==
    IF S = {} THEN 0
    ELSE LET i == CHOOSE x \in S : TRUE
         IN  Len(MessagesGiven[i].f["content"].s) + ContentChars(S \ {i})

CountsOf(value) ==
    /\ value["message_count"] = Len(MessagesGiven)
    /\ value["user_message_count"] = Cardinality(WithRole(c_user))
    /\ value["assistant_message_count"] = Cardinality(WithRole(c_assistant))
    /\ value["user_message_count"] + value["assistant_message_count"]
          <= value["message_count"]
    /\ value["tool_count"] = ToolsDeclared
    /\ call.cls # "AnthropicProvider" =>
          LET prompts == WithRole(c_system) \cup WithRole(c_developer)
          IN  /\ value["base_prompt_chars"] = value["system_prompt_total_chars"]
              /\ (\A i \in prompts : TextOnly(i)) =>
                    value["system_prompt_total_chars"] = ContentChars(prompts)

AnalyzeCounts(always) ==
    (call.op = "analyze_request" /\ returned # Pending) =>
        /\ always => returned.kind = "return"
        /\ returned.kind = "return" => CountsOf(returned.value)

BodyKept == call.op = "analyze_request" => call'.body = call.body

\* C18: for every request body analyze_request reports the number of
\* messages, of messages whose role is exactly user and exactly assistant,
\* and of declared tools (the functions list for an OpenAI-compatible body
\* without tools); for the OpenAI-compatible provider base_prompt_chars
\* equals system_prompt_total_chars; the body is not modified.
C18_AnalyzeCounts == []AnalyzeCounts(TRUE) /\ [][BodyKept]_vars

\* the same for the calls that return
AnalyzeCountsReturned == []AnalyzeCounts(FALSE) /\ [][BodyKept]_vars

CountsReturnedWitness ==
    /\ Analyzed({"OpenAICompatibleProvider"})
    /\ "tools" \notin DOMAIN call.body /\ "functions" \in DOMAIN call.body
    /\ returned.value["tool_count"] = 3
    /\ returned.value["message_count"] = 2
    /\ returned.value["user_message_count"] = 1

\* the body has the shape of a request: a list of message objects, lists of
\* tools and functions
WellShaped ==
    /\ GivenOr("messages", PList(<<>>)).t = "list"
    /\ \A i \in DOMAIN MessagesGiven : MessagesGiven[i].t = "dict"
    /\ GivenOr("tools", PList(<<>>)).t = "list"
    /\ GivenOr("functions", PList(<<>>)).t = "list"

\* the messages whose content json.dumps cannot encode
Unencodable ==
    {i \in DOMAIN MessagesGiven :
        /\ "content" \in DOMAIN MessagesGiven[i].f
        /\ ~Serializable(MessagesGiven[i].f["content"])}

\* those of them the OpenAI-compatible provider measures as a system prompt
\* that is neither a string nor a list
MeasuredWhole ==
    {i \in Unencodable \cap (WithRole(c_system) \cup WithRole(c_developer)) :
        MessagesGiven[i].f["content"].t # "list"}

SerializationFailure(measured) ==
    (/\ call.op = "analyze_request" /\ returned # Pending
     /\ WellShaped /\ Unencodable # {}
     /\ call.cls = "AnthropicProvider" \/ MeasuredWhole \subseteq measured) =>
        /\ returned.kind = "return"
        /\ returned.value["conversation_history_chars"] = 0
        /\ CountsOf(returned.value)
        /\ call.cls = "AnthropicProvider" =>
              LET system == GivenOr("system", PList(<<>>))
              IN  system.t \in {"str", "list"} =>
                     \A bucket \in {"base_prompt_chars"} \cup WorkspaceKeys :
                        returned.value[bucket]
                           = AttributedTo(bucket, PromptBlocks(system), 1)

\* C20: when message content cannot be serialized, analyze_request of either
\* provider does not raise; the history character count is 0 and the message
\* counts, the system prompt counts and the tool count are returned as
\* without the failure, whatever the role of the message with the content.
C20_SerializationFailure == SerializationFailure(DOMAIN MessagesGiven)

\* the same unless the OpenAI-compatible provider measures the content as a
\* system prompt
SerializationFailureElsewhere == SerializationFailure({})

SerializationFailureWitness ==
    /\ Analyzed({"OpenAICompatibleProvider"})
    /\ WellShaped
    /\ Unencodable = {2}
    /\ WithRole(c_system) = {2}
    /\ returned.value["conversation_history_chars"] = 0
    /\ returned.value["system_prompt_total_chars"] = 2
    /\ returned.value["message_count"] = 2

\* ---- query_session_status ------------------------------------------------
\* st is the status record of one backend: status or pg_status
Queried(st) == st.op = "query_session_status"

\* conversation_history_chars of row i of the window analysed, NULL read as 0
Hist(st, i) == OrZero(st.rows[i].conversation_history_chars)

HistSeq(st) == [i \in 1..Len(st.rows) |-> Hist(st, i)]

\* the rows (counted from 0) that follow a reset: the row before holds more
\* than 1000 characters and the row itself less than half of that
ResetAt(st) ==
    {i \in 1..(Len(st.rows) - 1) : Hist(st, i) > 1000 /\ 2 * Hist(st, i + 1) < Hist(st, i)}

\* where the current session starts (counted from 0): the last reset, else 0
Boundary(st) ==
    IF ResetAt(st) = {} THEN 0
    ELSE CHOOSE i \in ResetAt(st) : \A j \in ResetAt(st) : j <= i

\* the current session: the rows from the boundary on
CurrentSession(st) == SubSeq(st.rows, Boundary(st) + 1, Len(st.rows))

Min2(a, b) == IF a < b THEN a ELSE b

\* the rolling window: the last min(5, n) rows of the current session
Rolling(st) ==
    SubSeq(CurrentSession(st),
           Len(CurrentSession(st)) - Min2(5, Len(CurrentSession(st))) + 1,
           Len(CurrentSession(st)))

ExampleCounts == <<50, 5000, 40000, 500, 8000>>

\* last_reset_idx is the boundary, for the status st whose code computed
\* last_reset_idx for its window
SessionBoundaryOf(st, last_reset_idx) ==
    (Queried(st) /\ st.rows # <<>>) =>
        /\ last_reset_idx = Boundary(st)
        /\ st.current_session_turns = Len(st.rows) - Boundary(st)
        /\ HistSeq(st) = ExampleCounts =>
              /\ last_reset_idx = 3
              /\ st.current_session_turns = 2

\* C3: in both backends, for a non-empty window the current session starts at
\* the largest i >= 1 whose record i-1 holds more than 1000 history characters
\* and whose record i holds less than half of that (NULL read as 0), and at 0
\* when there is none; for the counts 50, 5000, 40000, 500, 8000 it starts at
\* the record of 500.
C3_SessionBoundary ==
    /\ SessionBoundaryOf(status, LastResetIdx(status.rows))
    /\ SessionBoundaryOf(pg_status, PgScanResets(pg_status.rows, 1, 0))

\* C3 witness: both backends analysed the window 50, 5000, 40000, 500, 8000
C3_Witness ==
    /\ Queried(status) /\ HistSeq(status) = ExampleCounts
    /\ status.turns_since_last_reset = 2
    /\ Queried(pg_status) /\ HistSeq(pg_status) = ExampleCounts
    /\ pg_status.turns_since_last_reset = 2

RecommendationOf(st) ==
    (Queried(st) /\ st.rows # <<>>) =>
        LET H == st.current_history_chars
            T == st.char_limit
            w == SumCacheWrite(Rolling(st))
            c == SumCache(Rolling(st))
            unstable == 5 * w > Max2(1, c) /\ Len(Rolling(st)) >= 3 IN
        /\ st.recommendation =
              IF 2 * H > 5 * T THEN "reset_recommended"
              ELSE IF H > 2 * T THEN "compact_soon"
              ELSE IF H > T THEN "monitor"
              ELSE IF unstable THEN "cache_unstable"
              ELSE "healthy"
        /\ 2 * H = 5 * T => st.recommendation = "compact_soon"
        /\ H = 2 * T => st.recommendation = "monitor"
        /\ H = T => st.recommendation \in {"cache_unstable", "healthy"}
        /\ H > T => st.recommendation \notin {"cache_unstable", "healthy"}

\* C4: the recommendation is decided in the order H > 2.5 T, H > 2 T, H > T,
\* then cache-write ratio > 0.20 over a rolling window of at least 3 records,
\* else healthy; every comparison is strict.
C4_Recommendation == RecommendationOf(status) /\ RecommendationOf(pg_status)

\* C4 witness: a history of exactly 2.5 T is labelled compact_soon
C4_Witness ==
    /\ Queried(status) /\ status.rows # <<>>
    /\ 2 * status.current_history_chars = 5 * status.char_limit
    /\ status.recommendation = "compact_soon"
    /\ pg_status.recommendation = "compact_soon"

CurrentSessionIsSuffixOf(st) ==
    (Queried(st) /\ st.rows # <<>>) =>
        LET session == CurrentSession(st)
            n == Len(session) IN
        /\ st.turns_since_last_reset = n
        /\ st.current_session_turns = n
        /\ st.current_history_chars = OrZero(session[n].conversation_history_chars)
        /\ st.last_turn_cost =
              RoundDiv(OrZero(session[n].estimated_cost_usd), CostUnitsPerMicro)
        /\ st.cost_since_last_reset = RoundDiv(SumCost(session), CostUnitsPerMicro)
        /\ HistSeq(st) = ExampleCounts =>
              st.cost_since_last_reset =
                  RoundDiv(OrZero(st.rows[4].estimated_cost_usd)
                           + OrZero(st.rows[5].estimated_cost_usd), CostUnitsPerMicro)

\* C5: the session reported is the suffix of the window from the boundary:
\* both turn counts are its length, the history size and the last-turn cost
\* are those of its final record, and cost_since_last_reset is the sum of the
\* costs of exactly its records (money rounded to six decimals); for the
\* counts 50, 5000, 40000, 500, 8000 only the last two records are summed.
C5_CurrentSessionIsSuffix ==
    CurrentSessionIsSuffixOf(status) /\ CurrentSessionIsSuffixOf(pg_status)

\* C5 witness: the window 50, 5000, 40000, 500, 8000, whose earlier records
\* have a cost, was analysed and the cost of the last two records reported
C5_Witness ==
    /\ Queried(status) /\ HistSeq(status) = ExampleCounts
    /\ SumCost(status.rows) > SumCost(CurrentSession(status))
    /\ status.cost_since_last_reset > 0
    /\ pg_status.cost_since_last_reset = status.cost_since_last_reset

RollingWindowOf(st) ==
    (Queried(st) /\ st.rows # <<>>) =>
        LET rolling == Rolling(st) IN
        /\ Len(rolling) = Min2(5, Len(CurrentSession(st)))
        /\ st.avg_cost_last_5 =
              RoundDiv(SumCost(rolling), Len(rolling) * CostUnitsPerMicro)
        /\ st.cache_write_pct_last_5 =
              RoundDiv(SumCacheWrite(rolling) * RatioScale, Max2(1, SumCache(rolling)))
        /\ SumCache(rolling) = 0 => st.cache_write_pct_last_5 = 0

\* C6: the rolling window is the last min(5, n) records of the current session
\* of n records; avg_cost_last_5 is the sum of their costs over their number
\* and cache_write_pct_last_5 the sum of their cache-write tokens over
\* max(1, sum of their cache-read and cache-write tokens), 0 when the window
\* has no cache activity.
C6_RollingWindow == RollingWindowOf(status) /\ RollingWindowOf(pg_status)

\* C6 witness: a session of more than five records, the record outside the
\* rolling window having a cost and cache activity
C6_Witness ==
    /\ Queried(status) /\ Len(CurrentSession(status)) > 5
    /\ SumCost(CurrentSession(status)) > SumCost(Rolling(status))
    /\ SumCache(CurrentSession(status)) > SumCache(Rolling(status))
    /\ Queried(pg_status) /\ Len(CurrentSession(pg_status)) > 5

NoDataOf(st) ==
    Queried(st) =>
        IF st.rows = <<>>
        THEN /\ st.current_session_turns = 0 /\ st.current_history_chars = 0
             /\ st.last_turn_cost = 0 /\ st.avg_cost_last_5 = 0
             /\ st.cache_write_pct_last_5 = 0 /\ st.cost_since_last_reset = 0
             /\ st.turns_since_last_reset = 0
             /\ st.recommendation = "no_data"
        ELSE /\ st.recommendation # "no_data"
             /\ st.turns_since_last_reset >= 1

\* C7: an empty window gives all counters zero and no_data; a non-empty window
\* never gives no_data and gives at least one turn since the last reset.
C7_NoData == NoDataOf(status) /\ NoDataOf(pg_status)

\* C7 witness: an agent whose only records are those of another agent
C7_Witness ==
    /\ Queried(status) /\ status.rows = <<>> /\ status.recommendation = "no_data"
    /\ usage # <<>>
    /\ Queried(pg_status) /\ pg_status.rows = <<>> /\ pg_status.recommendation = "no_data"

\* the tick at which a row of table usage was written, read back from its
\* timestamp
WrittenAt(row) == row.timestamp[1] * TicksPerDay + row.timestamp[3]

\* C8: the window db.py analyses holds the records of the requested agent
\* written within the 24 hours before the query, in ascending order of
\* timestamp: none older than 24 hours, none of another agent, none of the
\* agent left out.
C8_WindowIsLast24Hours ==
    Queried(status) =>
        /\ \A i \in 1..Len(status.rows) :
              /\ status.rows[i].agent = status.agent
              /\ WrittenAt(status.rows[i]) >= status.at - TicksPerDay
        /\ \A j \in 1..Len(usage) :
              (usage[j].agent = status.agent /\ WrittenAt(usage[j]) > status.at - TicksPerDay)
                  => \E i \in 1..Len(status.rows) : status.rows[i] = usage[j]
        /\ \A i \in 1..(Len(status.rows) - 1) :
              WrittenAt(status.rows[i]) <= WrittenAt(status.rows[i + 1])

\* ---- the write path -------------------------------------------------------
\* what the store answered to the last call: the failure it raised, or the
\* one the statement itself runs into
FailureOf(backend) ==
    IF backend = "sqlite" THEN SqliteOutcome(call.entry, call.sqlite_failure)
    ELSE PgOutcome(call.entry, call.pg_failure)

WriteOnce(backend, before, after) ==
    LET failure == FailureOf(backend)'
        outcome == returned'[backend]
    IN  /\ outcome.attempts = 1
        /\ outcome.entry = call'.entry
        /\ failure # "None" =>
              /\ outcome.kind = "raise" /\ outcome.exc = failure
              /\ after = before
        /\ failure = "None" =>
              /\ outcome.kind = "return"
              /\ Len(after) = Len(before) + 1
              /\ SubSeq(after, 1, Len(before)) = before

LogUsageStep ==
    (returned' # returned /\ call'.op = "log_usage") =>
        /\ WriteOnce("sqlite", usage, usage')
        /\ WriteOnce("pg", requests, requests')

\* the rows the queries read are the rows of the calls that returned
OnlyWrittenRows ==
    (call.op = "log_usage") =>
        /\ Len(usage) = returned.sqlite.stored
        /\ Len(requests) = returned.pg.stored
        /\ Queried(status) => Len(status.rows) <= returned.sqlite.stored
        /\ Queried(pg_status) => Len(pg_status.rows) <= returned.pg.stored

AllowList(cls) ==
    IF cls = "AnthropicProvider"
    THEN {"x-api-key", "anthropic-version", "anthropic-beta",
          "anthropic-dangerous-direct-browser-access"}
    ELSE {"Authorization", "x-api-key"}

\* the name under which a forwarded header arrives inbound
InboundName(header) == IF header = "Authorization" THEN "authorization" ELSE header

\* C21: get_auth_headers returns only headers of the provider's allow-list,
\* each with the value it has inbound; no other inbound header is forwarded,
\* and a header that is absent or empty inbound is not emitted.
C21_OnlyAllowListedHeaders ==
    Returned("get_auth_headers") =>
        /\ DOMAIN returned.value \subseteq AllowList(call.cls)
        /\ \A header \in DOMAIN returned.value :
              /\ InboundName(header) \in DOMAIN call.headers
              /\ call.headers[InboundName(header)] # ""
              /\ returned.value[header] = call.headers[InboundName(header)]

\* an Authorization header and a cookie sent to Anthropic are held back, the
\* key is forwarded
C21_Witness ==
    /\ Returned("get_auth_headers")
    /\ call.cls = "AnthropicProvider"
    /\ call.headers = [k \in {"authorization", "cookie", "x-api-key"} |->
                          IF k = "x-api-key" THEN "sk-2" ELSE "sk-1"]
    /\ returned.value = [k \in {"x-api-key"} |-> "sk-2"]

\* an allow-listed header that arrives with a value is forwarded
AllowListedForwarded ==
    Returned("get_auth_headers") =>
        \A header \in AllowList(call.cls) :
            (/\ InboundName(header) \in DOMAIN call.headers
             /\ call.headers[InboundName(header)] # "")
                => header \in DOMAIN returned.value

\* message i after the rewrite: the role developer has become system, every
\* other key is as before
Rewritten(before, after) ==
    /\ after.t = "dict"
    /\ DOMAIN after.f = DOMAIN before.f
    /\ \A k \in DOMAIN before.f :
          after.f[k] = IF k = "role" /\ before.f[k] = PStr(c_developer)
                       THEN PStr(c_system) ELSE before.f[k]

RewriteReturned ==
    Returned("rewrite_request") =>
        IF call.cls = "AnthropicProvider" THEN returned.value = call.body
        ELSE /\ DOMAIN returned.value = DOMAIN call.body
             /\ \A k \in DOMAIN call.body \ {"messages"} : returned.value[k] = call.body[k]
             /\ "messages" \in DOMAIN call.body =>
                   LET after == returned.value["messages"]
                   IN  /\ after.t = "list"
                       /\ Len(after.e) = Len(MessagesGiven)
                       /\ \A i \in DOMAIN MessagesGiven :
                             /\ Rewritten(MessagesGiven[i], after.e[i])
                             /\ PGet(after.e[i], "role", PNone) # PStr(c_developer)

\* a body whose messages are a list of message objects is rewritten
RewriteReturns ==
    (call.op = "rewrite_request" /\ returned # Pending /\ WellShaped)
        => returned.kind = "return"

\* the second application returns what the first returned
RewriteTwice ==
    (call.op = "rewrite_request" /\ returned.kind = "return" /\ returned'.kind = "return")
        => returned'.value = returned.value

\* C22: rewrite_request of the OpenAI-compatible provider returns a body in
\* which no message has role developer: each such message has role system,
\* number and order of the messages, every other role, every content and every
\* other body field are unchanged; applying it twice gives the same body as
\* applying it once.  rewrite_request of the Anthropic provider returns the
\* body unchanged.
C22_DeveloperBecomesSystem ==
    /\ [](RewriteReturned /\ RewriteReturns)
    /\ [][RewriteTwice]_vars

\* two developer messages among others, rewritten twice
C22_Witness ==
    /\ Returned("rewrite_request")
    /\ returned.calls = 2
    /\ call.cls = "MoonshotProvider"
    /\ WithRole(c_developer) # {} /\ WithRole(c_user) # {}
    /\ "tools" \in DOMAIN call.body
    /\ returned.value # call.body


\* ---- the two backends side by side -----------------------------------------
\* what query_session_status reports
StatusFields ==
    {"current_session_turns", "current_history_chars", "last_turn_cost", "avg_cost_last_5",
     "cache_write_pct_last_5", "cost_since_last_reset", "turns_since_last_reset",
     "recommendation"}

SameStatus == \A f \in StatusFields : status[f] = pg_status[f]

\* C23: after the same sequence of log_usage calls, query_session_status(agent,
\* char_limit) returns the same status (turns, history size, costs, cache-write
\* ratio, recommendation) from db_postgres.py as from db.py.
C23_SameStatusFromBothBackends ==
    (Queried(status) /\ Queried(pg_status)) => SameStatus

\* the two backends agree whenever they analyse the same records
SameStatusOnSameWindow ==
    (Queried(status) /\ Queried(pg_status) /\ Len(status.rows) = Len(pg_status.rows))
        => SameStatus

\* both backends analysed a window with a session boundary in it
SameStatusWitness ==
    /\ Queried(status) /\ Queried(pg_status)
    /\ Len(status.rows) = Len(pg_status.rows) /\ Len(status.rows) > 1
    /\ status.current_session_turns < Len(status.rows)
    /\ SameStatus


\* ---- the registry: removing and replacing -----------------------------------
\* the entry of name m in dict d is in e as it is in d
SameEntry(d, e, m) ==
    /\ m \in DOMAIN d <=> m \in DOMAIN e
    /\ m \in DOMAIN d => e[m] = d[m]

\* every name but n has its registration and its cache entry as before
OthersKept(n) ==
    \A m \in (DOMAIN _providers \cup DOMAIN _providers'
                \cup DOMAIN _instances \cup DOMAIN _instances') \ {n} :
        SameEntry(_providers, _providers', m) /\ SameEntry(_instances, _instances', m)

UnregisterStep ==
    ret'.op = "unregister" =>
        LET n == Lower(ret'.name) IN
        /\ (ret'.kind = "True") <=> (n \in DOMAIN _providers)
        /\ (ret'.kind = "False") <=> (n \notin DOMAIN _providers)
        /\ ret'.kind = "True" =>
              n \notin DOMAIN _providers' /\ n \notin DOMAIN _instances'
        /\ ret'.kind = "False" => _providers' = _providers /\ _instances' = _instances
        /\ OthersKept(n)
        /\ heap' = heap

ClearCacheStep ==
    ret'.op = "clear_cache" =>
        _instances' = EmptyDict /\ _providers' = _providers /\ heap' = heap

\* the get that follows the unregister of its name
GetAfterUnregister ==
    (/\ ret.op = "unregister" /\ ret.kind = "True"
     /\ ret'.op = "get" /\ Lower(ret'.name) = Lower(ret.name))
        => ret'.kind = "ValueError"

\* a get without config for a name that has no cached instance constructs an
\* object that did not exist before
GetConstructsAnew ==
    (/\ ret'.op = "get" /\ ~ret'.config.given /\ ret'.kind = "instance"
     /\ Lower(ret'.name) \notin DOMAIN _instances)
        => /\ ret'.id = Len(heap) + 1
           /\ heap' = Append(heap, [cls |-> _providers[Lower(ret'.name)],
                                    config |-> EmptyDict])
           /\ _instances'[Lower(ret'.name)] = ret'.id

\* C24: unregister(name) returns true exactly when the name was registered and
\* then removes the registration and the cached default instance of the name,
\* so that a following get(name) fails as unknown and a later register + get
\* constructs a new instance; it returns false and changes nothing otherwise.
\* clear_cache removes every cached instance and leaves the registrations, so
\* that the next get(name) without config constructs a new instance.  Neither
\* changes the registration or the cache entry of another name.
C24_UnregisterAndClearCache ==
    [][UnregisterStep /\ ClearCacheStep /\ GetAfterUnregister /\ GetConstructsAnew]_vars

\* "Anthropic" was unregistered after a default instance of it was handed out;
\* the cached instance of mycloud stays
C24_Witness ==
    /\ ret.op = "unregister" /\ ret.kind = "True" /\ ret.name = n_Anthropic
    /\ n_anthropic \notin DOMAIN _providers
    /\ Len(heap) = 2 /\ heap[1].cls = "AnthropicProvider" /\ heap[1].config = EmptyDict
    /\ DOMAIN _instances = {n_mycloud} /\ _instances[n_mycloud] = 2

\* a default instance was constructed after clear_cache had dropped another
ClearCacheWitness ==
    /\ ret.op = "get" /\ ~ret.config.given /\ ret.kind = "instance"
    /\ Lower(ret.name) = n_anthropic
    /\ ret.id = 2 /\ heap[1] = heap[2]
    /\ DOMAIN _instances = {n_anthropic}
    /\ DOMAIN _providers = DOMAIN ImportedProviders


\* C25: after any sequence of register, get, unregister and clear_cache, the
\* instance get(name) returns without a config override is an instance of the
\* class most recently registered under the name, also when a default instance
\* of the class registered before is cached.
C25_InstanceOfLatestRegistration ==
    (ret.op = "get" /\ ~ret.config.given /\ ret.kind = "instance")
        => heap[ret.id].cls = _providers[Lower(ret.name)]

\* an object is constructed from the class registered at that moment
ConstructedFromLatestRegistration ==
    [][ (ret'.op = "get" /\ ret'.kind = "instance" /\ Len(heap') > Len(heap))
            => heap'[ret'.id].cls = _providers[Lower(ret'.name)] ]_vars


\* ---- concurrent get --------------------------------------------------------
\* the calls in flight for a lower-cased name
CallsOf(n) == {t \in DOMAIN inflight : inflight[t].name_lower = n}

\* the default instances constructed for it
ConstructedFor(n) == {inflight[t].obj : t \in {u \in CallsOf(n) : inflight[u].obj # 0}}

\* the instances its calls have returned
ReturnedFor(n) == {inflight[t].id : t \in {u \in CallsOf(n) : inflight[u].pc = "done"}}

\* C26: when several requests in flight call get(name) without config at the
\* same time, the registrations being fixed, at most one default instance is
\* constructed for the name and every call returns that same instance, under
\* every interleaving of the check of the cache, the construction and the store.
C26_OneDefaultInstance ==
    \A n \in {inflight[t].name_lower : t \in DOMAIN inflight} :
        /\ Cardinality(ConstructedFor(n)) <= 1
        /\ Cardinality(ReturnedFor(n)) <= 1

\* calls that do not overlap between check and store share one instance: a
\* call that finds the cache filled constructs nothing and returns the entry
CacheHitShares ==
    [][ \A t \in DOMAIN inflight :
          (inflight[t].pc = "check" /\ inflight'[t].pc = "return") =>
              /\ heap' = heap /\ _instances' = _instances
              /\ inflight[t].name_lower \in DOMAIN _instances ]_vars

\* every instance returned is one constructed for the name, of its class
ReturnedWasConstructed ==
    \A t \in DOMAIN inflight :
        inflight[t].pc = "done" =>
            /\ inflight[t].id \in ConstructedFor(inflight[t].name_lower)
            /\ heap[inflight[t].id].cls = _providers[inflight[t].name_lower]


\* ---- a usage record written and read back ----------------------------------
\* the fields of the usage record that are columns of the store
FieldsLogged == DOMAIN call.entry \cap UsageColumns

ReadBack(row, fields) == \A k \in fields : row[k] = call.entry[k]

\* C27: every field of a usage record handed to log_usage is stored and read
\* back unchanged: query_usage returns a row whose request metrics, system
\* prompt breakdown (total, base and the eight workspace sections, including
\* workspace_memory_chars), token counts, cost and stop reason are those of
\* the record.
C27_RecordReadBack ==
    Returned("log_usage, query_usage") =>
        ReadBack(returned.value.sqlite, FieldsLogged) /\ ReadBack(returned.value.pg, FieldsLogged)

\* every field but workspace_memory_chars is read back from db.py as it was
\* logged, and every field from db_postgres.py
ReadBackButMemory ==
    Returned("log_usage, query_usage") =>
        /\ ReadBack(returned.value.sqlite, FieldsLogged \ {"workspace_memory_chars"})
        /\ ReadBack(returned.value.pg, FieldsLogged)

ReadBackWitness ==
    /\ Returned("log_usage, query_usage")
    /\ {"workspace_memory_chars", "workspace_soul_chars", "stop_reason"} \subseteq FieldsLogged
    /\ call.entry["workspace_soul_chars"] = PInt(7)
    /\ returned.value.sqlite["workspace_soul_chars"] = PInt(7)
    /\ returned.value.pg["workspace_memory_chars"] = PInt(7)


\* ---- agents of the PostgreSQL backend --------------------------------------
\* the records logged with agent name X, as db_postgres.py keeps them: db.py,
\* run side by side on the same calls, keeps the name of each call as given
LoggedAs(agent) == {i \in DOMAIN usage : usage[i].agent = agent}

RowsOf(indices) == {requests[i] : i \in indices}

AgentQueried == pg_status.op \in {"query_session_status", "query_usage"}

RowsSeen == {pg_status.rows[i] : i \in DOMAIN pg_status.rows}

\* C28: in the PostgreSQL backend query_session_status(X) and
\* query_usage(agent=X) see every record logged with agent name X within the
\* horizon and no record logged under another agent name, also when two agent
\* names differ only in letter case or in spaces versus hyphens.
C28_AgentIsolation ==
    AgentQueried =>
        /\ RowsSeen = RowsOf(LoggedAs(pg_status.agent))
        /\ Len(pg_status.rows) = Cardinality(LoggedAs(pg_status.agent))

\* the name of the agents row the slug of a name leads to ("" : no row)
FirstSpelling(agent) ==
    IF AgentIdOfSlug(Slug(agent)) = 0 THEN <<>>
    ELSE agents[AgentIdOfSlug(Slug(agent))].name

\* the records of every name with the slug of X are seen under the spelling
\* logged first, and nothing under the other spellings
IsolationBySlug ==
    AgentQueried =>
        LET sharing == {i \in DOMAIN usage : Slug(usage[i].agent) = Slug(pg_status.agent)}
            first   == FirstSpelling(pg_status.agent) = pg_status.agent
        IN  /\ RowsSeen = IF first THEN RowsOf(sharing) ELSE {}
            /\ Len(pg_status.rows) = IF first THEN Cardinality(sharing) ELSE 0

IsolationWitness ==
    /\ pg_status.op = "query_usage" /\ pg_status.agent = n_b
    /\ Len(pg_status.rows) = 1 /\ Len(requests) = 3
    /\ Len(agents) = 2


\* ---- the live feed ----------------------------------------------------------
Connected == client # NoClient

Got(backend) == IF Connected THEN client[backend] ELSE <<>>

Delivered(backend, i) == \E k \in DOMAIN Got(backend) : Got(backend)[k] = i

\* a poll delivers no record logged before the newest record the client had,
\* and none it has received already
NeverOldNorTwice(backend) ==
    Connected =>
        \A k \in DOMAIN client'[backend] :
            k > Len(client[backend]) =>
                /\ client'[backend][k] > Newest(client[backend])
                /\ ~Delivered(backend, client'[backend][k])

\* record i was logged after the newest record the client has
Awaited(backend, i) ==
    /\ Connected /\ Got(backend) # <<>>
    /\ i \in DOMAIN events /\ i > Newest(Got(backend))

EveryAwaitedDelivered(backend) ==
    \A i \in 1..(MaxEvents + 1) : Awaited(backend, i) ~> Delivered(backend, i)

\* C29: a live-feed client that polls query_recent_events(limit, after_id)
\* with after_id = the id of the newest record it has received is eventually
\* delivered every record logged after that record, and never a record logged
\* before it or one it has received, for every limit >= 1, every number of
\* records logged between two polls, and both backends.
C29_FeedDelivers ==
    /\ [][NeverOldNorTwice("sqlite") /\ NeverOldNorTwice("pg")]_vars
    /\ EveryAwaitedDelivered("sqlite") /\ EveryAwaitedDelivered("pg")

\* db.py delivers nothing old and nothing twice
SqliteNeverOldNorTwice == [][NeverOldNorTwice("sqlite")]_vars

\* db.py delivers every record when the limit is never below the number of
\* records logged between two polls
SqliteDeliversWithinLimit ==
    \A i \in 1..(MaxEvents + 1) :
        (Awaited("sqlite", i) /\ client.limit >= MaxEvents) ~> Delivered("sqlite", i)

FeedWitness ==
    /\ Connected /\ client.limit = 1
    /\ Len(events) = MaxEvents
    /\ client.sqlite = <<1, 2, 3>>

\* no adjacent pair of rows qualifies as a reset: previous count > 1000 and
\* current count < half of it
NoResetInside(rows) ==
    \A i \in 1..(Len(rows) - 1) :
        LET prev == OrZero(rows[i].conversation_history_chars)
            curr == OrZero(rows[i + 1].conversation_history_chars) IN
        ~(prev > 1000 /\ 2 * curr < prev)

SameFields(st1, st2) == \A f \in StatusFields : st1[f] = st2[f]

HistoryValues == {0, 5000}

\* windows that differ from rows before the first row of the session only:
\* leading rows removed, the first row added once more, the history count of
\* one earlier row changed
OtherPasts(rows, session_rows) ==
    LET past == SubSeq(rows, 1, Len(rows) - Len(session_rows)) IN
    {SubSeq(past, j, Len(past)) \o session_rows : j \in 1..(Len(past) + 1)}
    \cup {<<rows[1]>> \o rows}
    \cup {[past EXCEPT ![k].conversation_history_chars = h] \o session_rows :
              k \in DOMAIN past, h \in HistoryValues}

\* the status st of a backend, given its session rule and its analysis
OnlyCurrentSession(st, Session(_), Analysis(_, _, _)) ==
    (Queried(st) /\ st.rows # <<>>) =>
        LET session_rows == Session(st.rows) IN
        /\ NoResetInside(session_rows)
        /\ SameFields(Analysis(st.agent, st.char_limit, session_rows), st)
        /\ \A window \in OtherPasts(st.rows, session_rows) :
              Session(window) = session_rows =>
                  SameFields(Analysis(st.agent, st.char_limit, window), st)

\* C30: in both backends, for every non-empty window, the current session has
\* no adjacent pair that qualifies as a reset, the analysis of the current
\* session alone returns the same status as that of the whole window, and so
\* does the analysis of a window whose records before the boundary record are
\* changed, added or removed while the boundary stays in place.
C30_OnlyCurrentSession ==
    /\ OnlyCurrentSession(status, SessionRows, SessionStatus)
    /\ OnlyCurrentSession(pg_status, PgSessionRows, PgSessionStatus)

\* C30 witness: both backends analysed a window with two resets whose session
\* has several records; the window with its first record removed and the one
\* with an earlier count changed keep the boundary
C30_Witness ==
    /\ Queried(status) /\ Queried(pg_status)
    /\ Cardinality(ResetAt(status)) = 2
    /\ Boundary(status) = 3 /\ Len(CurrentSession(status)) = 2
    /\ SessionRows(Tail(status.rows)) = SessionRows(status.rows)
    /\ \E window \in OtherPasts(status.rows, SessionRows(status.rows)) :
          /\ Len(window) = Len(status.rows) /\ window # status.rows
          /\ SessionRows(window) = SessionRows(status.rows)
    /\ pg_status.current_session_turns = 2 /\ Len(pg_status.rows) = 5

====
